---- MODULE Spec2Model ----
(***************************************************************************)
(* EIP-7883 ModExp gas cost analysis: the two gas calculators of           *)
(* ModExpGasCalculator (eip7883_analysis.py), the ModExpDataAnalyzer       *)
(* pipeline over a directory of parquet files (load_modexp_data with       *)
(* _calculate_gas_costs, analyze_impact, and export_summary_stats of       *)
(* utils.py), and the percentiles of generate_markdown_report.py.          *)
(*                                                                         *)
(* A hexadecimal string is a sequence of one-character strings.  A Python  *)
(* int of unbounded width is the set of the positions of its one-bits, so  *)
(* that exponents of 256 bits and more are exact.                          *)
(***************************************************************************)
EXTENDS Integers, Sequences, FiniteSets, TLC

VARIABLES
    bsize,            \* the caller's base length, passed as base_length
    esize,            \* the caller's exponent length, passed as exponent_length
    msize,            \* the caller's modulus length, passed as modulus_length
    e,                \* the caller's exponent, a hex string, passed as exponent_bytes
    pc,               \* position of the caller: "start", "legacy", "done", "raised"; "idle" when no call is open
    calculated_2565,  \* value returned by calculate_eip2565_cost
    calculated_7883,  \* value returned by calculate_eip7883_cost
    iterations_2565,  \* local iteration_count of calculate_eip2565_cost at its return
    iterations_7883,  \* local iteration_count of calculate_eip7883_cost at its return
    data_dir,         \* the parquet files of self.data_dir: block number -> file
    limit,            \* load_modexp_data's limit: {} for None, {k} for the int k
    batch_size,       \* load_modexp_data's batch_size
    read_files,       \* the files passed to pd.read_parquet, in call order
    failed_files,     \* load_modexp_data's list failed_files
    df,               \* the analyzer's record table (self.df); <<>> while it is None
    stage,            \* position of the pipeline: "constructed", "costed", "analyzed", "exported", "raised"; "idle" outside it
    error,            \* the exception that ended the run, NoError while there is none
    mismatch,         \* number of rows of the local frame `mismatch`
    warned,           \* whether the mismatch warning was printed
    threshold,        \* operand length above which the caller wants calls counted
    results,          \* the dict returned by analyze_impact
    summary,          \* the rows written by export_summary_stats
    main_data,        \* the report's data['main_data'] frame
    percentiles,      \* the dict returned by calculate_percentiles
    args,             \* run_analysis.main's parsed arguments
    main_pc,          \* position of run_analysis.main: "load", "analyze", "summary", "done", "aborted"; "idle" outside it
    enrich_failed,    \* whether main printed that it could not enrich
    enrich_time,      \* main's local enrich_time: {} while it is unbound
    outputs,          \* the files main has written completely
    xatu,             \* the transactions the Xatu client can return, in its table's order
    enrich_args,      \* enrich_with_transaction_data's batch_size and max_blocks ({} for None)
    tx_batches,       \* the lists batch_txs, in loop order
    tx_outcomes,      \* per batch: "primary", "fallback" (primary raised) or "failed" (both raised)
    tx_results,       \* enrich_with_transaction_data's list tx_results
    enriched,         \* whether enrich_with_transaction_data has returned
    patterns,         \* the dict returned by analyze_gas_usage_patterns
    protocols         \* {} before identify_affected_protocols returns, then {the frame returned}

vars == <<bsize, esize, msize, e, pc,
          calculated_2565, calculated_7883, iterations_2565, iterations_7883,
          data_dir, limit, batch_size, read_files, failed_files,
          df, stage, error, mismatch, warned, threshold, results, summary,
          main_data, percentiles,
          args, main_pc, enrich_failed, enrich_time, outputs,
          xatu, enrich_args, tx_batches, tx_outcomes, tx_results, enriched,
          patterns, protocols>>

calcVars == <<bsize, esize, msize, e, pc,
              calculated_2565, calculated_7883, iterations_2565, iterations_7883>>

aggVars == <<data_dir, limit, batch_size, read_files, failed_files,
             df, stage, error, mismatch, warned, threshold, results, summary>>

\* The arguments of load_modexp_data and the files it is given.
loadArgs == <<data_dir, limit, batch_size>>

reportVars == <<main_data, percentiles>>

mainVars == <<args, main_pc, enrich_failed, enrich_time, outputs>>

txVars == <<xatu, enrich_args, tx_batches, tx_outcomes, tx_results, enriched>>

utilVars == <<patterns, protocols>>

(***************************************************************************)
(* Bounds of the model.                                                    *)
(***************************************************************************)
MaxSmallLen == 9      \* every operand length 0..MaxSmallLen is an input
MaxFiles == 2         \* most parquet files in the data directory

Max(a, b) == IF a >= b THEN a ELSE b

SetMax(S) == CHOOSE k \in S : \A j \in S : j <= k

(***************************************************************************)
(* Hexadecimal strings and int(s, 16).                                     *)
(***************************************************************************)
Repeat(c, n) == [i \in 1..n |-> c]

HexChars == {"0", "1", "2", "3", "4", "5", "6", "7", "8", "9",
             "a", "b", "c", "d", "e", "f"}

\* The value of each hex digit.
HexVal ==
    [c \in HexChars |->
        CASE c = "0" -> 0 [] c = "1" -> 1 [] c = "2" -> 2 [] c = "3" -> 3
          [] c = "4" -> 4 [] c = "5" -> 5 [] c = "6" -> 6 [] c = "7" -> 7
          [] c = "8" -> 8 [] c = "9" -> 9 [] c = "a" -> 10 [] c = "b" -> 11
          [] c = "c" -> 12 [] c = "d" -> 13 [] c = "e" -> 14 [] c = "f" -> 15]

\* The one-bit positions of each hex digit.
HexBits == [c \in HexChars |-> { j \in 0..3 : (HexVal[c] \div (2 ^ j)) % 2 = 1 }]

\* int(s, 16) accepts an optional "0x" prefix before the digits.
HexDigits(s) ==
    IF Len(s) >= 2 /\ s[1] = "0" /\ s[2] = "x" THEN SubSeq(s, 3, Len(s)) ELSE s

\* int(s, 16) raises ValueError unless at least one hex digit follows the prefix.
Parses(s) ==
    LET d == HexDigits(s)
    IN  Len(d) >= 1 /\ \A i \in 1..Len(d) : d[i] \in HexChars

\* The value of int(s, 16) as the set of its one-bit positions: digit i of n
\* digits (most significant first) holds bits 4*(n-i) .. 4*(n-i)+3.
Int16(s) ==
    LET d == HexDigits(s)
        n == Len(d)
    IN  UNION { { 4 * (n - i) + k : k \in HexBits[d[i]] } : i \in 1..n }

\* int.bit_length(): 0 for zero, else one more than the highest one-bit.
BitLength(n) == IF n = {} THEN 0 ELSE SetMax(n) + 1

\* n & (2**256 - 1)
MaskBits == 256

\* Mutant: the mask is forgotten.
Mask256_unmasked(n) == n

Mask256(n) == { k \in n : k < MaskBits }

\* exponent_int = int(exponent_bytes, 16) if exponent_bytes else 0
exponent_int(exponent_bytes) == IF exponent_bytes = <<>> THEN {} ELSE Int16(exponent_bytes)

\* The call raises ValueError exactly when the string is non-empty and unparseable.
Raises(exponent_bytes) == exponent_bytes # <<>> /\ ~Parses(exponent_bytes)

(***************************************************************************)
(* ModExpGasCalculator.calculate_eip2565_cost                              *)
(***************************************************************************)
max_length(base_length, modulus_length) == Max(base_length, modulus_length)

\* Mutant: the word count rounds down.
words_floor(base_length, modulus_length) == max_length(base_length, modulus_length) \div 8

words(base_length, modulus_length) == (max_length(base_length, modulus_length) + 7) \div 8

\* Mutant: the lower tier ends below 64 bytes.
multiplication_complexity_2565_lt64(base_length, modulus_length) ==
    LET ml == max_length(base_length, modulus_length)
        w == words(base_length, modulus_length)
    IN  IF ml < 64 THEN w ^ 2
        ELSE IF ml <= 1024 THEN (w ^ 2) \div 4 + 96 * w - 3072
        ELSE (w ^ 2) \div 16 + 480 * w - 199680

\* Mutant: the middle tier without its constant term.
multiplication_complexity_2565_no_offset(base_length, modulus_length) ==
    LET ml == max_length(base_length, modulus_length)
        w == words(base_length, modulus_length)
    IN  IF ml <= 64 THEN w ^ 2
        ELSE IF ml <= 1024 THEN (w ^ 2) \div 4 + 96 * w
        ELSE (w ^ 2) \div 16 + 480 * w - 199680

multiplication_complexity_2565(base_length, modulus_length) ==
    LET ml == max_length(base_length, modulus_length)
        w == words(base_length, modulus_length)
    IN  IF ml <= 64 THEN w ^ 2
        ELSE IF ml <= 1024 THEN (w ^ 2) \div 4 + 96 * w - 3072
        ELSE (w ^ 2) \div 16 + 480 * w - 199680

\* Mutant: the iteration count is not floored at 1.
iteration_count_2565_unfloored(exponent_length, exponent_bytes) ==
    LET x == exponent_int(exponent_bytes)
    IN  IF exponent_length <= 32
        THEN IF x = {} THEN 0 ELSE BitLength(x) - 1
        ELSE 8 * (exponent_length - 32) + (BitLength(Mask256(x)) - 1)

\* iteration_count after "iteration_count = max(iteration_count, 1)"
iteration_count_2565(exponent_length, exponent_bytes) ==
    LET x == exponent_int(exponent_bytes)
        raw == IF exponent_length <= 32
               THEN IF x = {} THEN 0 ELSE BitLength(x) - 1
               ELSE 8 * (exponent_length - 32) + (BitLength(Mask256(x)) - 1)
    IN  Max(raw, 1)

\* Mutant: the 200 gas minimum is missing.
calculate_eip2565_cost_nofloor(base_length, exponent_length, modulus_length, exponent_bytes) ==
    (multiplication_complexity_2565(base_length, modulus_length)
     * iteration_count_2565(exponent_length, exponent_bytes)) \div 3

\* Python's // is floor division, as \div is.
calculate_eip2565_cost(base_length, exponent_length, modulus_length, exponent_bytes) ==
    Max(200, (multiplication_complexity_2565(base_length, modulus_length)
              * iteration_count_2565(exponent_length, exponent_bytes)) \div 3)

(***************************************************************************)
(* ModExpGasCalculator.calculate_eip7883_cost                              *)
(***************************************************************************)
\* Mutant: the upper tier is linear in the word count.
multiplication_complexity_7883_linear(base_length, modulus_length) ==
    LET ml == max_length(base_length, modulus_length)
        w == words(base_length, modulus_length)
    IN  IF ml <= 32 THEN 16 ELSE 2 * w

multiplication_complexity_7883(base_length, modulus_length) ==
    LET ml == max_length(base_length, modulus_length)
        w == words(base_length, modulus_length)
    IN  IF ml <= 32 THEN 16 ELSE 2 * (w ^ 2)

\* Mutant: the long-exponent multiplier is still 8.
iteration_count_7883_mult8(exponent_length, exponent_bytes) ==
    LET x == exponent_int(exponent_bytes)
        raw == IF exponent_length <= 32
               THEN IF x = {} THEN 0 ELSE BitLength(x) - 1
               ELSE 8 * (exponent_length - 32) + (BitLength(Mask256(x)) - 1)
    IN  Max(raw, 1)

iteration_count_7883(exponent_length, exponent_bytes) ==
    LET x == exponent_int(exponent_bytes)
        raw == IF exponent_length <= 32
               THEN IF x = {} THEN 0 ELSE BitLength(x) - 1
               ELSE 16 * (exponent_length - 32) + (BitLength(Mask256(x)) - 1)
    IN  Max(raw, 1)

\* Mutant: the 500 gas minimum is missing.
calculate_eip7883_cost_nofloor(base_length, exponent_length, modulus_length, exponent_bytes) ==
    (multiplication_complexity_7883(base_length, modulus_length)
     * iteration_count_7883(exponent_length, exponent_bytes)) \div 3

calculate_eip7883_cost(base_length, exponent_length, modulus_length, exponent_bytes) ==
    Max(500, (multiplication_complexity_7883(base_length, modulus_length)
              * iteration_count_7883(exponent_length, exponent_bytes)) \div 3)

(***************************************************************************)
(* The inputs of the calculator calls.                                     *)
(***************************************************************************)
\* Lengths on both sides of every word and tier boundary, the sizes of the
\* worked vectors, and one length in the positive part of the upper tier.
BoundaryLengths == {31, 32, 33, 40, 41, 63, 64, 65, 72, 73, 128, 232, 233,
                    256, 512, 1023, 1024, 1025, 1033, 3200}

Lengths == (0..MaxSmallLen) \cup BoundaryLengths

ExponentLengths == {0, 1, 3, 32, 33, 40}

Hex(digits) == <<"0", "x">> \o digits

\* 2^256, 2^256 + 0x10001, 2^255: the first two are wider than 256 bits.
Wide0 == Hex(<<"1">> \o Repeat("0", 64))

Wide10001 == Hex(<<"1">> \o Repeat("0", 59) \o <<"1", "0", "0", "0", "1">>)

Top255 == Hex(<<"8">> \o Repeat("0", 63))

Exponents == { <<>>, Hex(<<"0">>), Hex(<<"1">>), Hex(<<"2">>), Hex(<<"3">>),
               Hex(<<"0", "3">>), Hex(<<"1", "0", "0", "0", "1">>),
               Wide0, Wide10001, Top255, Hex(<<>>) }

(***************************************************************************)
(* A caller that computes both costs of one call, as                       *)
(* test_eip7883_implementation and calculate_costs_for_profile do.         *)
(***************************************************************************)
InitCalc ==
    /\ bsize \in Lengths
    /\ esize \in ExponentLengths
    /\ msize \in Lengths
    /\ e \in Exponents
    /\ pc = "start"
    /\ calculated_2565 = 0
    /\ calculated_7883 = 0
    /\ iterations_2565 = 0
    /\ iterations_7883 = 0

Calculate2565 ==
    /\ pc = "start"
    /\ IF Raises(e)
       THEN /\ pc' = "raised"
            /\ UNCHANGED <<calculated_2565, iterations_2565>>
       ELSE /\ pc' = "legacy"
            /\ iterations_2565' = iteration_count_2565(esize, e)
            /\ calculated_2565' = calculate_eip2565_cost(bsize, esize, msize, e)
    /\ UNCHANGED <<bsize, esize, msize, e, calculated_7883, iterations_7883>>
    /\ UNCHANGED <<aggVars, reportVars, mainVars, txVars, utilVars>>

Calculate7883 ==
    /\ pc = "legacy"
    /\ pc' = "done"
    /\ iterations_7883' = iteration_count_7883(esize, e)
    /\ calculated_7883' = calculate_eip7883_cost(bsize, esize, msize, e)
    /\ UNCHANGED <<bsize, esize, msize, e, calculated_2565, iterations_2565>>
    /\ UNCHANGED <<aggVars, reportVars, mainVars, txVars, utilVars>>

\* No exception, no dict: the values of error, results, summary, percentiles
\* before anything has been raised or returned.
NoError == [type |-> "none", message |-> "", literals |-> <<>>]

None == [none |-> TRUE]

IdleCalc ==
    /\ bsize = 0 /\ esize = 0 /\ msize = 0 /\ e = <<>>
    /\ pc = "idle"
    /\ calculated_2565 = 0 /\ calculated_7883 = 0
    /\ iterations_2565 = 0 /\ iterations_7883 = 0

IdleAnalyzer ==
    /\ data_dir = <<>>
    /\ limit = {}
    /\ batch_size = 1000
    /\ read_files = <<>>
    /\ failed_files = <<>>
    /\ df = <<>>
    /\ stage = "idle"
    /\ error = NoError
    /\ mismatch = 0
    /\ warned = FALSE
    /\ threshold = 32
    /\ results = None
    /\ summary = None

IdleReport ==
    /\ main_data = <<>>
    /\ percentiles = None

\* No enrichment and no utility call has been made.
IdleTx ==
    /\ xatu = <<>>
    /\ enrich_args = [batch_size |-> 1000, max_blocks |-> {}]
    /\ tx_batches = <<>>
    /\ tx_outcomes = <<>>
    /\ tx_results = <<>>
    /\ enriched = FALSE
    /\ patterns = None
    /\ protocols = {}

\* run_analysis.main is not running.
IdleMain ==
    /\ args = [enrich_txs |-> FALSE]
    /\ main_pc = "idle"
    /\ enrich_failed = FALSE
    /\ enrich_time = {}
    /\ outputs = {}

Init ==
    /\ InitCalc
    /\ IdleAnalyzer
    /\ IdleReport
    /\ IdleMain
    /\ IdleTx

Next == Calculate2565 \/ Calculate7883

Spec == Init /\ [][Next]_vars

(***************************************************************************)
(* ModExpDataAnalyzer: load_modexp_data with its default arguments (no     *)
(* limit, one batch), which ends in _calculate_gas_costs.  A row is a      *)
(* record of its columns; a float quotient of the code is kept exact, as   *)
(* the pair of its numerator and denominator.                              *)
(***************************************************************************)
RowBsizes == {32, 64}

RowEsizes == {3, 33}

RowMsizes == {32, 40}

RowExponents == {Hex(<<"1", "0", "0", "0", "1">>)}

RowGasCosts == {0, 200, 500, 600}

\* Two rows with one defect each: an exponent that int(_, 16) rejects, and a
\* negative base length.
MalformedRow == [Bsize |-> 32, Esize |-> 3, Msize |-> 32, E |-> Hex(<<>>), gas_costs |-> 200]

NegativeRow == [Bsize |-> -1, Esize |-> 3, Msize |-> 32,
                E |-> Hex(<<"1", "0", "0", "0", "1">>), gas_costs |-> 200]

Rows == [Bsize : RowBsizes, Esize : RowEsizes, Msize : RowMsizes,
         E : RowExponents, gas_costs : RowGasCosts]
        \cup {MalformedRow, NegativeRow}

\* The calls of block k: one transaction per block, its hash named after it.
RowsOfBlock(k) == { row @@ [tx_hash |-> k] : row \in Rows }

\* A parquet file: unreadable, empty, or one call.
Files(k) == { [readable |-> FALSE, rows |-> <<>>], [readable |-> TRUE, rows |-> <<>>] }
            \cup { [readable |-> TRUE, rows |-> <<row>>] : row \in RowsOfBlock(k) }

\* The directories with the files 1.parquet .. n.parquet.
RECURSIVE DirectoriesOf(_)
DirectoriesOf(n) ==
    IF n = 0 THEN {<<>>}
    ELSE { Append(dir, file) : dir \in DirectoriesOf(n - 1), file \in Files(n) }

\* sorted(glob("*.parquet"), key=int(stem), reverse=True)
parquet_files(dir) ==
    LET blocks == DOMAIN dir
    IN  [i \in 1..Cardinality(blocks) |->
            CHOOSE b \in blocks : Cardinality({ c \in blocks : c > b }) = i - 1]

\* parquet_files[:limit] when limit is truthy and below the file count.
select_files(files, lim) ==
    IF \E k \in lim : k # 0 /\ k < Len(files)
    THEN LET k == CHOOSE k \in lim : TRUE
         IN  SubSeq(files, 1, IF k >= 0 THEN k ELSE Max(Len(files) + k, 0))
    ELSE files

\* Mutant: the last batch is dropped when it is not full.
batches_full_only(files, size) ==
    [b \in 1..(Len(files) \div size) |-> SubSeq(files, (b - 1) * size + 1, b * size)]

\* parquet_files[batch_start:batch_end] for batch_start in range(0, len, size).
batches(files, size) ==
    [b \in 1..((Len(files) + size - 1) \div size) |->
        SubSeq(files, (b - 1) * size + 1,
               IF b * size <= Len(files) THEN b * size ELSE Len(files))]

\* pd.concat of a list of frames, ignore_index.
RECURSIVE concat(_)
concat(frames) == IF frames = <<>> THEN <<>> ELSE Head(frames) \o concat(Tail(frames))

\* Mutant: an unreadable file ends the batch; the files after it are lost.
RECURSIVE batch_dfs_stop(_, _)
batch_dfs_stop(dir, batch_files) ==
    IF batch_files = <<>> THEN <<>>
    ELSE LET file == dir[Head(batch_files)]
         IN  IF ~file.readable THEN <<>>
             ELSE IF Len(file.rows) > 0
             THEN << [i \in 1..Len(file.rows) |->
                         file.rows[i] @@ [block_number |-> Head(batch_files)]] >>
                  \o batch_dfs_stop(dir, Tail(batch_files))
             ELSE batch_dfs_stop(dir, Tail(batch_files))

\* The frames one batch appends to batch_dfs: a file that cannot be read or
\* has no rows gives none, the others their rows with the block_number column.
RECURSIVE batch_dfs(_, _)
batch_dfs(dir, batch_files) ==
    IF batch_files = <<>> THEN <<>>
    ELSE LET file == dir[Head(batch_files)]
         IN  IF file.readable /\ Len(file.rows) > 0
             THEN << [i \in 1..Len(file.rows) |->
                         file.rows[i] @@ [block_number |-> Head(batch_files)]] >>
                  \o batch_dfs(dir, Tail(batch_files))
             ELSE batch_dfs(dir, Tail(batch_files))

\* The list dfs: one concatenated frame per batch that has any frame.
RECURSIVE dfs_of(_, _)
dfs_of(dir, batch_list) ==
    IF batch_list = <<>> THEN <<>>
    ELSE (IF batch_dfs(dir, Head(batch_list)) # <<>>
          THEN <<concat(batch_dfs(dir, Head(batch_list)))>>
          ELSE <<>>)
         \o dfs_of(dir, Tail(batch_list))

dfs(dir, lim, size) == dfs_of(dir, batches(select_files(parquet_files(dir), lim), size))

\* One row after the four column assignments of _calculate_gas_costs.
WithCosts(row) ==
    LET old == calculate_eip2565_cost(row.Bsize, row.Esize, row.Msize, row.E)
        new == calculate_eip7883_cost(row.Bsize, row.Esize, row.Msize, row.E)
    IN  row @@ [eip2565_cost |-> old,
                eip7883_cost |-> new,
                cost_increase |-> new - row.gas_costs,
                cost_ratio |-> [num |-> new, den |-> row.gas_costs]]

calculate_gas_costs(table) == [i \in 1..Len(table) |-> WithCosts(table[i])]

mismatch_rows_all(table) == 1..Len(table)

\* The rows of the local frame `mismatch`.
mismatch_rows(table) == { i \in 1..Len(table) : table[i].eip2565_cost # table[i].gas_costs }

\* The ValueError of int(exponent_bytes, 16) at the first row it rejects.
first_malformed(table) ==
    LET i == CHOOSE j \in 1..Len(table) :
                 Raises(table[j].E) /\ \A k \in 1..(j - 1) : ~Raises(table[k].E)
    IN  [type |-> "ValueError", message |-> "invalid literal for int() with base 16",
         literals |-> <<table[i].E>>]

no_valid_data_unchecked(frames) == FALSE

\* `not dfs`: no file gave a frame.
no_valid_data(frames) == frames = <<>>

\* load_modexp_data reads the selected files batch by batch, noting the ones
\* that fail; it raises when no file gave a row and leaves self.df unset;
\* otherwise it sets self.df and calls _calculate_gas_costs, where df.apply
\* raises the calculator's ValueError at the first unparseable row, before any
\* column is assigned; otherwise the four columns are added and the
\* mismatching rows are counted, with a warning when there are any.
load_modexp_data ==
    /\ stage = "constructed"
    /\ read_files' = concat(batches(select_files(parquet_files(data_dir), limit), batch_size))
    /\ failed_files' = SelectSeq(read_files', LAMBDA file : ~data_dir[file].readable)
    /\ LET loaded == concat(dfs(data_dir, limit, batch_size))
       IN  IF no_valid_data(dfs(data_dir, limit, batch_size))
           THEN /\ stage' = "raised"
                /\ error' = [type |-> "ValueError",
                             message |-> "No valid ModExp data found",
                             literals |-> <<>>]
                /\ UNCHANGED <<df, mismatch, warned>>
           ELSE IF \E i \in 1..Len(loaded) : Raises(loaded[i].E)
           THEN /\ stage' = "raised"
                /\ df' = loaded
                /\ error' = first_malformed(loaded)
                /\ UNCHANGED <<mismatch, warned>>
           ELSE /\ stage' = "costed"
                /\ df' = calculate_gas_costs(loaded)
                /\ mismatch' = Cardinality(mismatch_rows(calculate_gas_costs(loaded)))
                /\ warned' = (Cardinality(mismatch_rows(calculate_gas_costs(loaded))) > 0)
                /\ UNCHANGED error
    /\ UNCHANGED <<loadArgs, threshold, results, summary>>
    /\ UNCHANGED <<calcVars, reportVars, mainVars, txVars, utilVars>>

\* A constructed ModExpDataAnalyzer over a data directory; no calculator call
\* of the verifier is open and no report is being generated.
InitAnalyzer ==
    /\ IdleCalc
    /\ IdleReport
    /\ IdleMain
    /\ IdleTx
    /\ \E n \in 0..MaxFiles : data_dir \in DirectoriesOf(n)
    /\ limit = {}
    /\ batch_size = 1000
    /\ read_files = <<>>
    /\ failed_files = <<>>
    /\ df = <<>>
    /\ stage = "constructed"
    /\ error = NoError
    /\ mismatch = 0
    /\ warned = FALSE
    /\ threshold = 32
    /\ results = None
    /\ summary = None

(***************************************************************************)
(* load_modexp_data with a limit and a batch size, over directories whose  *)
(* files hold up to two calls.                                             *)
(***************************************************************************)
MaxLoadFiles == 3

Limits == {{}, {-1}, {0}, {1}, {2}, {4}}

BatchSizes == {1, 2, 1000}

LoadRow(hash, gas) ==
    [Bsize |-> 32, Esize |-> 3, Msize |-> 32, E |-> Hex(<<"1", "0", "0", "0", "1">>),
     gas_costs |-> gas, tx_hash |-> hash]

\* The file k.parquet: unreadable, empty, one call or two calls; the calls of
\* block k have the hashes 10k+1 and 10k+2.
LoadFiles(k) ==
    { [readable |-> FALSE, rows |-> <<>>],
      [readable |-> TRUE, rows |-> <<>>],
      [readable |-> TRUE, rows |-> <<LoadRow(10 * k + 1, 200)>>],
      [readable |-> TRUE, rows |-> <<LoadRow(10 * k + 1, 200), LoadRow(10 * k + 2, 500)>>] }

RECURSIVE LoadDirectoriesOf(_)
LoadDirectoriesOf(n) ==
    IF n = 0 THEN {<<>>}
    ELSE { Append(dir, file) : dir \in LoadDirectoriesOf(n - 1), file \in LoadFiles(n) }

InitLoad ==
    /\ IdleCalc
    /\ IdleReport
    /\ IdleMain
    /\ IdleTx
    /\ \E n \in 0..MaxLoadFiles : data_dir \in LoadDirectoriesOf(n)
    /\ limit \in Limits
    /\ batch_size \in BatchSizes
    /\ read_files = <<>>
    /\ failed_files = <<>>
    /\ df = <<>>
    /\ stage = "constructed"
    /\ error = NoError
    /\ mismatch = 0
    /\ warned = FALSE
    /\ threshold = 32
    /\ results = None
    /\ summary = None

NextLoad == load_modexp_data

SpecLoad == InitLoad /\ [][NextLoad]_vars

(***************************************************************************)
(* Column statistics as pandas computes them, kept exact.                  *)
(***************************************************************************)
Column(table, name) == [i \in 1..Len(table) |-> table[i][name]]

RECURSIVE Sum_positive(_)
Sum_positive(values) ==
    IF values = <<>> THEN 0
    ELSE IF Len(values) = 1 THEN (IF values[1] > 0 THEN values[1] ELSE 0)
    ELSE Sum_positive(SubSeq(values, 1, Len(values) \div 2))
         + Sum_positive(SubSeq(values, Len(values) \div 2 + 1, Len(values)))

\* Series.sum(), the halves added so that the evaluation stays shallow.
RECURSIVE Sum(_)
Sum(values) ==
    IF values = <<>> THEN 0
    ELSE IF Len(values) = 1 THEN values[1]
    ELSE Sum(SubSeq(values, 1, Len(values) \div 2))
         + Sum(SubSeq(values, Len(values) \div 2 + 1, Len(values)))

CountOver_atleast(table, name, bound) ==
    Cardinality({ i \in 1..Len(table) : table[i][name] >= bound })

\* len(df[df[name] > bound])
CountOver(table, name, bound) == Cardinality({ i \in 1..Len(table) : table[i][name] > bound })

\* Mutant: the k-th value in table order.
OrderStat_in_table_order(values, k) == values[k]

\* The k-th smallest value (k = 1 the minimum), ties counted.
OrderStat(values, k) ==
    CHOOSE v \in { values[i] : i \in 1..Len(values) } :
        /\ Cardinality({ i \in 1..Len(values) : values[i] < v }) < k
        /\ Cardinality({ i \in 1..Len(values) : values[i] <= v }) >= k

Mean(values) == [num |-> Sum(values), den |-> Len(values)]

\* Series.median: the middle value, or the mean of the two middle values.
Median(values) ==
    LET n == Len(values)
    IN  IF n % 2 = 1
        THEN [num |-> OrderStat(values, (n + 1) \div 2), den |-> 1]
        ELSE [num |-> OrderStat(values, n \div 2) + OrderStat(values, n \div 2 + 1),
              den |-> 2]

\* The caller has no argument to pass a threshold through.
Thresholds == {32, 64}

\* "name" in df.columns; every row of a table has the same columns.
has_column(table, name) == table # <<>> /\ name \in DOMAIN table[1]

\* A column of the transaction data holds a set: {} for NaN, {v} for v.
\* The keys of df.groupby(name): the values present, NaN dropped.
group_keys(table, name) == UNION { table[i][name] : i \in 1..Len(table) }

\* Mutant: the rows without a key are counted in every group.
group_with_nan(table, name, key) == SelectSeq(table, LAMBDA row : row[name] \subseteq {key})

\* The rows of one group, in table order.
group(table, name, key) == SelectSeq(table, LAMBDA row : row[name] = {key})

\* DataFrame.round(2) of a quotient: the nearest hundredth, a tie to even.
round_2(q) ==
    LET floor == (100 * q.num) \div q.den
        rest == 100 * q.num - floor * q.den
    IN  [num |-> IF 2 * rest > q.den \/ (2 * rest = q.den /\ floor % 2 = 1)
                 THEN floor + 1 ELSE floor,
         den |-> 100]

\* sort_values(by, ascending=False): rows with equal values keep their order.
RECURSIVE sort_values_descending(_, _)
sort_values_descending(frame, by) ==
    IF frame = <<>> THEN <<>>
    ELSE LET greatest == CHOOSE i \in 1..Len(frame) :
                            /\ \A j \in 1..Len(frame) : frame[j][by] <= frame[i][by]
                            /\ \A j \in 1..(i - 1) : frame[j][by] < frame[i][by]
         IN  <<frame[greatest]>>
             \o sort_values_descending(SubSeq(frame, 1, greatest - 1)
                                       \o SubSeq(frame, greatest + 1, Len(frame)), by)

\* Mutant: the view is not cut.
head_all(frame, n) == frame

\* DataFrame.head(n)
head(frame, n) == SubSeq(frame, 1, IF Len(frame) < n THEN Len(frame) ELSE n)

\* The keys of a groupby in the order of its rows: ascending.
ascending(keys) ==
    [i \in 1..Cardinality(keys) |->
        CHOOSE k \in keys : Cardinality({ other \in keys : other < k }) = i - 1]

\* df.groupby("from_address").agg(...).round(2) with its renamed columns; the
\* index is kept as the column from_address.
address_impact(table) ==
    LET keys == ascending(group_keys(table, "from_address"))
    IN  [g \in 1..Len(keys) |->
            LET rows == group(table, "from_address", keys[g])
            IN  [from_address |-> keys[g],
                 total_increase |-> Sum(Column(rows, "cost_increase")),
                 avg_increase |-> round_2(Mean(Column(rows, "cost_increase"))),
                 call_count |-> Len(rows),
                 total_old_cost |-> Sum(Column(rows, "gas_costs")),
                 total_new_cost |-> Sum(Column(rows, "eip7883_cost"))]]

\* address_impact.sort_values("total_increase", ascending=False).head(20)
top_impacted_addresses(table) ==
    head(sort_values_descending(address_impact(table), "total_increase"), 20)

\* The dict analyze_impact builds; top_impacted_addresses only from a table
\* with a from_address column (an enriched table).
impact_results(table) ==
    LET increase == Column(table, "cost_increase")
        calls_with_increase == CountOver(table, "cost_increase", 0)
    IN  (IF has_column(table, "from_address")
         THEN [top_impacted_addresses |-> top_impacted_addresses(table)]
         ELSE <<>>) @@
        [total_calls |-> Len(table),
         unique_transactions |-> Cardinality({ table[i].tx_hash : i \in 1..Len(table) }),
         block_range |-> <<OrderStat(Column(table, "block_number"), 1),
                           OrderStat(Column(table, "block_number"), Len(table))>>,
         avg_cost_increase |-> Mean(increase),
         median_cost_increase |-> Median(increase),
         max_cost_increase |-> OrderStat(increase, Len(table)),
         total_cost_increase |-> Sum(increase),
         calls_with_increase |-> calls_with_increase,
         pct_calls_affected |-> [num |-> 100 * calls_with_increase, den |-> Len(table)],
         calls_over_32_bytes |-> [base |-> CountOver(table, "Bsize", 32),
                                  exponent |-> CountOver(table, "Esize", 32),
                                  modulus |-> CountOver(table, "Msize", 32)]]

\* On a table without rows, 100 * 0 / 0 at line 205 divides Python ints.
analyze_impact ==
    /\ stage = "costed"
    /\ threshold' \in Thresholds
    /\ IF Len(df) = 0
       THEN /\ stage' = "raised"
            /\ error' = [type |-> "ZeroDivisionError", message |-> "division by zero",
                         literals |-> <<>>]
            /\ UNCHANGED results
       ELSE /\ stage' = "analyzed"
            /\ results' = impact_results(df)
            /\ UNCHANGED error
    /\ UNCHANGED <<loadArgs, read_files, failed_files, df, mismatch, warned, summary>>
    /\ UNCHANGED <<calcVars, reportVars, mainVars, txVars, utilVars>>

\* The dict export_summary_stats writes as its one-column frame.
summary_stats(table) ==
    LET increase == Column(table, "cost_increase")
    IN  [TotalCalls |-> Len(table),
         UniqueTransactions |-> Cardinality({ table[i].tx_hash : i \in 1..Len(table) }),
         BlockRangeStart |-> OrderStat(Column(table, "block_number"), 1),
         BlockRangeEnd |-> OrderStat(Column(table, "block_number"), Len(table)),
         CallsWithCostIncrease |-> CountOver(table, "cost_increase", 0),
         PercentAffected |-> [num |-> 100 * CountOver(table, "cost_increase", 0),
                              den |-> Len(table)],
         TotalCurrentGas |-> Sum(Column(table, "gas_costs")),
         TotalEIP7883Gas |-> Sum(Column(table, "eip7883_cost")),
         TotalGasIncrease |-> Sum(increase),
         AverageCostIncrease |-> Mean(increase),
         MedianCostIncrease |-> Median(increase),
         MaxCostIncrease |-> OrderStat(increase, Len(table)),
         CallsWithBaseOver32 |-> CountOver(table, "Bsize", 32),
         CallsWithExpOver32 |-> CountOver(table, "Esize", 32),
         CallsWithModOver32 |-> CountOver(table, "Msize", 32)]

export_summary_stats ==
    /\ stage = "analyzed"
    /\ stage' = "exported"
    /\ summary' = summary_stats(df)
    /\ UNCHANGED <<loadArgs, read_files, failed_files, df, error, mismatch, warned, threshold, results>>
    /\ UNCHANGED <<calcVars, reportVars, mainVars, txVars, utilVars>>

NextAgg == load_modexp_data \/ analyze_impact \/ export_summary_stats

SpecAgg == InitAnalyzer /\ [][NextAgg]_vars

(***************************************************************************)
(* run_analysis.main: load, optional enrichment, impact analysis, data     *)
(* exports and analysis_summary.txt.  The steps after the summary are each *)
(* inside a try block of their own and cannot end the run.                 *)
(***************************************************************************)
InitMain ==
    /\ IdleCalc
    /\ IdleReport
    /\ IdleTx
    /\ \E n \in 0..MaxLoadFiles : data_dir \in LoadDirectoriesOf(n)
    /\ limit \in {{}, {2}}
    /\ batch_size \in {2, 1000}
    /\ read_files = <<>>
    /\ failed_files = <<>>
    /\ df = <<>>
    /\ stage = "constructed"
    /\ error = NoError
    /\ mismatch = 0
    /\ warned = FALSE
    /\ threshold = 32
    /\ results = None
    /\ summary = None
    /\ args \in [enrich_txs : BOOLEAN]
    /\ main_pc = "load"
    /\ enrich_failed = FALSE
    /\ enrich_time = {}
    /\ outputs = {}

\* analyzer.load_modexp_data(limit=limit, batch_size=args.batch_size)
main_load == main_pc = "load" /\ load_modexp_data

\* The exceptions the enrichment block can meet: pyxatu.PyXatu() raising, and
\* the TypeError of the call itself, which passes strategy= to a function
\* that has no such parameter.  The module pyxatu is imported by utils
\* before main runs, so the import inside the block succeeds.
EnrichmentExceptions == {"PyXatu", "TypeError"}

\* if args.enrich_txs: try ... except Exception: print warning.  enrich_time
\* is assigned only after the call returns, which it never does.
main_enrich ==
    /\ main_pc = "load"
    /\ stage = "costed"
    /\ main_pc' = "analyze"
    /\ IF args.enrich_txs
       THEN \E raised \in EnrichmentExceptions : enrich_failed' = TRUE
       ELSE enrich_failed' = enrich_failed
    /\ UNCHANGED <<args, enrich_time, outputs>>
    /\ UNCHANGED <<calcVars, aggVars, reportVars, txVars, utilVars>>

\* results = analyzer.analyze_impact()
main_analyze == main_pc = "analyze" /\ analyze_impact

\* analyzer.df.to_parquet(...), and to_csv(...) for fewer than 100000 rows.
main_export_data ==
    /\ main_pc = "analyze"
    /\ stage = "analyzed"
    /\ main_pc' = "summary"
    /\ outputs' = outputs \cup {"modexp_analysis_data.parquet"}
                  \cup (IF Len(df) < 100000 THEN {"modexp_analysis_data.csv"} ELSE {})
    /\ UNCHANGED <<args, enrich_failed, enrich_time>>
    /\ UNCHANGED <<calcVars, aggVars, reportVars, txVars, utilVars>>

\* The summary's line f"  Transaction enrichment: {enrich_time:.1f}s" reads a
\* local that is unbound: NameError.
summary_raises == args.enrich_txs /\ enrich_time = {}

\* with open(output_path / "analysis_summary.txt", "w") as f: ...
main_summary ==
    /\ main_pc = "summary"
    /\ IF summary_raises
       THEN /\ main_pc' = "aborted"
            /\ error' = [type |-> "NameError", message |-> "enrich_time", literals |-> <<>>]
            /\ UNCHANGED outputs
       ELSE /\ main_pc' = "done"
            /\ outputs' = outputs \cup {"analysis_summary.txt"}
            /\ UNCHANGED error
    /\ UNCHANGED <<args, enrich_failed, enrich_time>>
    /\ UNCHANGED <<loadArgs, read_files, failed_files, df, stage, mismatch, warned,
                   threshold, results, summary>>
    /\ UNCHANGED <<calcVars, reportVars, txVars, utilVars>>

\* An exception of load_modexp_data or analyze_impact leaves main.
main_abort ==
    /\ main_pc \in {"load", "analyze"}
    /\ stage = "raised"
    /\ main_pc' = "aborted"
    /\ UNCHANGED <<args, enrich_failed, enrich_time, outputs>>
    /\ UNCHANGED <<calcVars, aggVars, reportVars, txVars, utilVars>>

NextMain ==
    \/ main_load
    \/ main_enrich
    \/ main_analyze
    \/ main_export_data
    \/ main_summary
    \/ main_abort

SpecMain == InitMain /\ [][NextMain]_vars

(***************************************************************************)
(* generate_markdown_report: calculate_percentiles on the exported table   *)
(* (modexp_analysis_data.csv, read back as data['main_data']).             *)
(* np.percentile with its default method interpolates linearly at the      *)
(* position (n - 1) * p / 100 of the ascending values; a percentile is     *)
(* kept exact, as a numerator over a denominator.                          *)
(***************************************************************************)
MaxReportRows == 3   \* longest enumerated main_data table

\* Rows as the pipeline exports them: costed rows, gas_costs above 0 (a
\* gas_costs of 0 makes cost_ratio infinite).
ReportGasCosts == {200, 490, 500, 600}

ReportRowOf(b, gas) ==
    WithCosts([Bsize |-> b, Esize |-> 3, Msize |-> 32,
               E |-> Hex(<<"1", "0", "0", "0", "1">>), gas_costs |-> gas])

ReportRows == { ReportRowOf(32, gas) : gas \in ReportGasCosts }
              \cup { ReportRowOf(64, 341), ReportRowOf(64, 682) }

\* Ten calls of proposed cost 500 whose cost_increase values are
\* 10, 10, 20, 30, 40, 50, 60, 70, 80, 90, not in order.
TenIncreases ==
    [i \in 1..10 |->
        ReportRowOf(32, 500 - <<60, 10, 90, 30, 10, 80, 20, 50, 70, 40>>[i])]

ReportTables ==
    UNION { [1..n -> ReportRows] : n \in 0..MaxReportRows } \cup {TenIncreases}

WithIncrease_nonnegative(table) == SelectSeq(table, LAMBDA row : row.cost_increase >= 0)

\* df[df['cost_increase'] > 0]
WithIncrease(table) == SelectSeq(table, LAMBDA row : row.cost_increase > 0)

\* The element at 0-based index floor(p / 100 * n), the last one at most.
Percentile_nearest_rank(values, p) ==
    LET n == Len(values)
        index == (p * n) \div 100
    IN  [num |-> 100 * OrderStat(values, IF index + 1 <= n THEN index + 1 ELSE n),
         den |-> 100]

\* The element at 0-based index floor((n - 1) * p / 100).
Percentile_lower(values, p) ==
    [num |-> 100 * OrderStat(values, ((Len(values) - 1) * p) \div 100 + 1), den |-> 100]

Percentile(values, p) ==
    LET n == Len(values)
        position == (n - 1) * p
        below == OrderStat(values, position \div 100 + 1)
        above == OrderStat(values, IF position \div 100 + 2 <= n
                                   THEN position \div 100 + 2 ELSE n)
    IN  [num |-> 100 * below + (position % 100) * (above - below), den |-> 100]

\* Order and interpolation of cost_ratio values, each a pair num/den, den > 0.
RatioLess(x, y) == x.num * y.den < y.num * x.den

RatioOrderStat(values, k) ==
    CHOOSE v \in { values[i] : i \in 1..Len(values) } :
        /\ Cardinality({ i \in 1..Len(values) : RatioLess(values[i], v) }) < k
        /\ Cardinality({ i \in 1..Len(values) : ~RatioLess(v, values[i]) }) >= k

\* A quotient in lowest terms, so that equal floats are equal pairs.
RECURSIVE GCD(_, _)
GCD(a, b) == IF b = 0 THEN a ELSE GCD(b, a % b)

Lowest(x) == [num |-> x.num \div GCD(x.num, x.den), den |-> x.den \div GCD(x.num, x.den)]

RatioPercentile(values, p) ==
    LET n == Len(values)
        position == (n - 1) * p
        below == Lowest(RatioOrderStat(values, position \div 100 + 1))
        above == Lowest(RatioOrderStat(values, IF position \div 100 + 2 <= n
                                               THEN position \div 100 + 2 ELSE n))
    IN  Lowest([num |-> 100 * below.num * above.den
                        + (position % 100) * (above.num * below.den - below.num * above.den),
                den |-> 100 * below.den * above.den])

calculate_percentiles(table) ==
    LET increases == Column(WithIncrease(table), "cost_increase")
        ratios == Column(WithIncrease(table), "cost_ratio")
    IN  IF Len(increases) = 0
        THEN [no_increases |-> TRUE]
        ELSE [p10 |-> Percentile(increases, 10),
              p25 |-> Percentile(increases, 25),
              p50 |-> Percentile(increases, 50),
              p75 |-> Percentile(increases, 75),
              p90 |-> Percentile(increases, 90),
              p95 |-> Percentile(increases, 95),
              p99 |-> Percentile(increases, 99),
              ratio_percentiles |->
                  [p50 |-> RatioPercentile(ratios, 50),
                   p75 |-> RatioPercentile(ratios, 75),
                   p90 |-> RatioPercentile(ratios, 90),
                   p95 |-> RatioPercentile(ratios, 95),
                   p99 |-> RatioPercentile(ratios, 99)]]

\* The cost increase analysis of generate_markdown_report.
cost_increase_analysis ==
    /\ percentiles = None
    /\ percentiles' = calculate_percentiles(main_data)
    /\ UNCHANGED main_data
    /\ UNCHANGED <<calcVars, aggVars, mainVars, txVars, utilVars>>

InitReport ==
    /\ IdleCalc
    /\ IdleAnalyzer
    /\ IdleMain
    /\ IdleTx
    /\ main_data \in ReportTables
    /\ percentiles = None

NextReport == cost_increase_analysis

SpecReport == InitReport /\ [][NextReport]_vars

(***************************************************************************)
(* utils.enrich_with_transaction_data over a costed table and a Xatu       *)
(* client.  Addresses are numbers; a transaction carries the columns the   *)
(* code reads (block_number, tx_hash, from_address, to_address, gas_price).*)
(* An ETH amount is kept in wei, where the code divides by 1e18.           *)
(***************************************************************************)
MaxTxRows == 3

\* One more row than the largest batch of transaction hashes.
MaxBigRows == 501

\* The sender and the contract of transaction h: two senders and two
\* contracts for the small hashes, 25 senders and 4 contracts for the others.
Sender(h) == IF h < 1000 THEN 10 + (h % 2) ELSE 100 + (h % 25)

Contract(h) == IF h < 1000 THEN 20 + ((h \div 10) % 2) ELSE 200 + (h % 4)

\* The transaction with hash h, as the client returns it; its block is h \div 10.
Transaction(h) ==
    [block_number |-> h \div 10, tx_hash |-> h,
     from_address |-> {Sender(h)}, to_address |-> {Contract(h)}, gas_price |-> {2}]

\* A stored call of transaction h, costed by _calculate_gas_costs.
TxRow(h, gas, exponent) ==
    WithCosts([Bsize |-> 32, Esize |-> 3, Msize |-> 32, E |-> exponent,
               gas_costs |-> gas, tx_hash |-> h, block_number |-> h \div 10])

TxRows == { TxRow(11, 200, Hex(<<"1", "0", "0", "0", "1">>)),
            TxRow(12, 600, Hex(<<"1", "0", "0", "0", "1">>)),
            TxRow(21, 600, Hex(<<"0", "2">>)) }

\* One call per transaction of BigHashes, the recorded costs all different
\* within a sender.
BigTable ==
    [i \in 1..MaxBigRows |->
        TxRow(1000 + i, 200 + ((1000 + i) % 25), Hex(<<"1", "0", "0", "0", "1">>))]

TxTables == UNION { [1..n -> TxRows] : n \in 1..MaxTxRows } \cup {BigTable}

\* Series.unique(): the values in the order of their first appearance.
unique(values) ==
    LET indexed == [i \in 1..Len(values) |-> <<i, values[i]>>]
        first == SelectSeq(indexed,
                           LAMBDA pair : \A j \in 1..(pair[1] - 1) : values[j] # pair[2])
    IN  [k \in 1..Len(first) |-> first[k][2]]

\* list(set(unique hashes)): the hashes in the arbitrary order of a set.  Of
\* the orders of more than MaxTxRows + 1 hashes only the order of appearance
\* and its reverse are taken.
Orders(hashes) ==
    IF Len(hashes) <= MaxTxRows + 1
    THEN { order \in [1..Len(hashes) -> { hashes[i] : i \in 1..Len(hashes) }] :
             \A i, j \in 1..Len(hashes) : i # j => order[i] # order[j] }
    ELSE { hashes, [i \in 1..Len(hashes) |-> hashes[Len(hashes) + 1 - i]] }

modexp_txs(modexp_df) == unique(Column(modexp_df, "tx_hash"))

\* The block range of the queries: all blocks of the table, or the last
\* max_blocks of them.
modexp_blocks(modexp_df, max_blocks) ==
    LET blocks == { modexp_df[i].block_number : i \in 1..Len(modexp_df) }
    IN  IF \E k \in max_blocks : k # 0 /\ Cardinality(blocks) > k
        THEN { b \in blocks :
                 Cardinality({ c \in blocks : c > b }) < (CHOOSE k \in max_blocks : TRUE) }
        ELSE blocks

min_block(blocks) == CHOOSE b \in blocks : \A c \in blocks : b <= c

max_block(blocks) == CHOOSE b \in blocks : \A c \in blocks : b >= c

\* Mutant: the batch size is not capped.
tx_batch_size_uncapped(size) == size

tx_batch_size(size) == IF size < 500 THEN size ELSE 500

\* modexp_tx_list[i:i + tx_batch_size] for i in range(0, len, tx_batch_size)
batch_txs(tx_list, size) ==
    [b \in 1..((Len(tx_list) + size - 1) \div size) |->
        SubSeq(tx_list, (b - 1) * size + 1,
               IF b * size <= Len(tx_list) THEN b * size ELSE Len(tx_list))]

\* The primary query: the block range and transaction_hash IN (batch).
execute_query(client, lo, hi, batch) ==
    SelectSeq(client, LAMBDA t : /\ t.block_number >= lo /\ t.block_number <= hi
                                 /\ \E i \in 1..Len(batch) : batch[i] = t.tx_hash)

\* The fallback query: the block range only.
execute_fallback_query(client, lo, hi) ==
    SelectSeq(client, LAMBDA t : t.block_number >= lo /\ t.block_number <= hi)

\* result[result["tx_hash"].isin(batch_txs)]
isin(result, batch) ==
    SelectSeq(result, LAMBDA t : \E i \in 1..Len(batch) : batch[i] = t.tx_hash)

QueryOutcomes == {"primary", "fallback", "failed"}

\* What one pass of the loop appends to tx_results.
batch_result(client, lo, hi, batch, outcome) ==
    IF outcome = "primary"
    THEN LET result == execute_query(client, lo, hi, batch)
         IN  IF Len(result) > 0 THEN <<isin(result, batch)>> ELSE <<>>
    ELSE IF outcome = "fallback"
    THEN LET result == isin(execute_fallback_query(client, lo, hi), batch)
         IN  IF Len(result) > 0 THEN <<result>> ELSE <<>>
    ELSE <<>>

RECURSIVE tx_results_of(_, _, _, _, _)
tx_results_of(client, lo, hi, batch_list, outcomes) ==
    IF batch_list = <<>> THEN <<>>
    ELSE batch_result(client, lo, hi, Head(batch_list), Head(outcomes))
         \o tx_results_of(client, lo, hi, Tail(batch_list), Tail(outcomes))

\* The columns the merge adds to a row without a matching transaction.
NaNColumns == [from_address |-> {}, to_address |-> {}, gas_price |-> {}]

\* The three ETH columns, NaN where gas_price is.
WithEthCosts(row) ==
    row @@ [eth_cost_current |-> { row.gas_costs * price : price \in row.gas_price },
            eth_cost_eip7883 |-> { row.eip7883_cost * price : price \in row.gas_price },
            eth_cost_increase |-> { row.eip7883_cost * price - row.gas_costs * price :
                                      price \in row.gas_price }]

\* pd.merge(modexp_df, tx_df, how="left", on=["block_number", "tx_hash"]): the
\* rows of the left frame in order, each with its matches.
RECURSIVE merge(_, _)
merge(modexp_df, tx_df) ==
    IF modexp_df = <<>> THEN <<>>
    ELSE IF Len(modexp_df) > 1
    THEN merge(SubSeq(modexp_df, 1, Len(modexp_df) \div 2), tx_df)
         \o merge(SubSeq(modexp_df, Len(modexp_df) \div 2 + 1, Len(modexp_df)), tx_df)
    ELSE LET row == modexp_df[1]
             matches == SelectSeq(tx_df, LAMBDA t : /\ t.block_number = row.block_number
                                                    /\ t.tx_hash = row.tx_hash)
         IN  (IF matches = <<>>
              THEN << row @@ NaNColumns >>
              ELSE [m \in 1..Len(matches) |->
                       row @@ [from_address |-> matches[m].from_address,
                               to_address |-> matches[m].to_address,
                               gas_price |-> matches[m].gas_price]])

\* The frame the function returns.
enriched_df(modexp_df, results_list) ==
    IF results_list # <<>>
    THEN LET merged == merge(modexp_df, concat(results_list))
         IN  [i \in 1..Len(merged) |-> WithEthCosts(merged[i])]
    ELSE modexp_df

\* analyzer.df = enrich_with_transaction_data(analyzer.df, xatu, ...)
enrich_with_transaction_data ==
    /\ stage = "costed"
    /\ ~enriched
    /\ enriched' = TRUE
    /\ LET blocks == modexp_blocks(df, enrich_args.max_blocks)
           lo == min_block(blocks)
           hi == max_block(blocks)
       IN  \E modexp_tx_list \in Orders(modexp_txs(df)) :
             LET batch_list == batch_txs(modexp_tx_list, tx_batch_size(enrich_args.batch_size))
             IN  \E outcomes \in [1..Len(batch_list) -> QueryOutcomes] :
                   /\ tx_batches' = batch_list
                   /\ tx_outcomes' = outcomes
                   /\ tx_results' = tx_results_of(xatu, lo, hi, batch_list, outcomes)
                   /\ df' = enriched_df(df, tx_results')
    /\ UNCHANGED <<xatu, enrich_args>>
    /\ UNCHANGED <<loadArgs, read_files, failed_files, stage, error, mismatch, warned,
                   threshold, results, summary>>
    /\ UNCHANGED <<calcVars, reportVars, mainVars, utilVars>>

\* A costed table, a client and the arguments of the enrichment.
InitTx ==
    /\ IdleCalc
    /\ IdleReport
    /\ IdleMain
    /\ data_dir = <<>>
    /\ limit = {}
    /\ batch_size = 1000
    /\ read_files = <<>>
    /\ failed_files = <<>>
    /\ df \in TxTables
    /\ stage = "costed"
    /\ error = NoError
    /\ mismatch = 0
    /\ warned = FALSE
    /\ threshold = 32
    /\ results = None
    /\ summary = None
    /\ xatu \in { [i \in 1..Len(known) |-> Transaction(known[i])] :
                     known \in {<<>>, <<11>>, <<12, 11>>, <<11, 12, 21>>,
                                [i \in 1..MaxBigRows |-> 1000 + i]} }
    /\ enrich_args \in [batch_size : {1, 2, 1000}, max_blocks : {{}, {1}}]
    /\ df = BigTable => enrich_args = [batch_size |-> 1000, max_blocks |-> {}]
    /\ df = BigTable <=> Len(xatu) > MaxTxRows
    /\ tx_batches = <<>>
    /\ tx_outcomes = <<>>
    /\ tx_results = <<>>
    /\ enriched = FALSE
    /\ patterns = None
    /\ protocols = {}

NextTx == enrich_with_transaction_data \/ analyze_impact

SpecTx == InitTx /\ [][NextTx]_vars

(***************************************************************************)
(* utils.analyze_gas_usage_patterns and utils.identify_affected_protocols, *)
(* called on the analyzer's table.                                         *)
(***************************************************************************)
\* [3, 5, 17, 257, 65537] as sets of one-bit positions.
FermatPrimes == {{0, 1}, {0, 2}, {0, 4}, {0, 8}, {0, 16}}

\* df["exponent_int"] = ..., df["is_fermat"] = ...: assignments to the
\* caller's frame.
with_exponent_columns(table) ==
    [i \in 1..Len(table) |->
        table[i] @@ [exponent_int |-> exponent_int(table[i].E),
                     is_fermat |-> exponent_int(table[i].E) \in FermatPrimes]]

\* Whether one (Bsize, Esize, Msize) comes before another in a groupby.
combo_before(a, b) ==
    \/ a[1] < b[1]
    \/ a[1] = b[1] /\ a[2] < b[2]
    \/ a[1] = b[1] /\ a[2] = b[2] /\ a[3] < b[3]

\* df.groupby(["Bsize", "Esize", "Msize"]).size()
param_combos(table) ==
    LET combos == { <<table[i].Bsize, table[i].Esize, table[i].Msize>> : i \in 1..Len(table) }
    IN  [k \in 1..Cardinality(combos) |->
            LET combo == CHOOSE c \in combos :
                            Cardinality({ d \in combos : combo_before(d, c) }) = k - 1
            IN  [combo |-> combo,
                 size |-> Cardinality({ i \in 1..Len(table) :
                             <<table[i].Bsize, table[i].Esize, table[i].Msize>> = combo })]]

\* mean, median, quantile(0.95) and max of one column.
size_stats(values) ==
    [mean |-> Mean(values),
     median |-> Median(values),
     p95 |-> Percentile(values, 95),
     max |-> OrderStat(values, Len(values))]

\* The bins of pd.cut, each open on the left and closed on the right; the
\* last has no upper edge.
cost_bins ==
    [label : {"<500"}, over : {0}, upto : {500}]
    \cup [label : {"500-1k"}, over : {500}, upto : {1000}]
    \cup [label : {"1k-5k"}, over : {1000}, upto : {5000}]
    \cup [label : {"5k-10k"}, over : {5000}, upto : {10000}]
    \cup [label : {"10k-50k"}, over : {10000}, upto : {50000}]
    \cup [label : {"50k-100k"}, over : {50000}, upto : {100000}]
    \cup [label : {">100k"}, over : {100000}, upto : {-1}]

cost_brackets(values) ==
    [label \in { bin.label : bin \in cost_bins } |->
        LET bin == CHOOSE b \in cost_bins : b.label = label
        IN  Cardinality({ i \in 1..Len(values) :
                            /\ values[i] > bin.over
                            /\ bin.upto = -1 \/ values[i] <= bin.upto })]

\* The dict patterns, computed after the two columns were added.
gas_usage_patterns(table) ==
    LET fermat == Cardinality({ i \in 1..Len(table) :
                                  exponent_int(table[i].E) \in FermatPrimes })
    IN  [top_param_combos |-> head(sort_values_descending(param_combos(table), "size"), 20),
         fermat_usage |-> [count |-> fermat,
                           percentage |-> [num |-> 100 * fermat, den |-> Len(table)]],
         size_stats |-> [base |-> size_stats(Column(table, "Bsize")),
                         exponent |-> size_stats(Column(table, "Esize")),
                         modulus |-> size_stats(Column(table, "Msize"))],
         cost_brackets |-> cost_brackets(Column(table, "gas_costs"))]

analyze_gas_usage_patterns ==
    /\ stage = "costed"
    /\ patterns = None
    /\ patterns' = gas_usage_patterns(df)
    /\ df' = with_exponent_columns(df)
    /\ UNCHANGED <<loadArgs, read_files, failed_files, stage, error, mismatch, warned,
                   threshold, results, summary>>
    /\ UNCHANGED protocols
    /\ UNCHANGED <<calcVars, reportVars, mainVars, txVars>>

\* df.groupby("to_address").agg(...).round(2), avg_cost_ratio, sorted by
\* total_increase descending; the empty frame without a to_address column.
affected_protocols(table) ==
    IF ~has_column(table, "to_address") THEN <<>>
    ELSE LET keys == ascending(group_keys(table, "to_address"))
             contract_impact ==
                 [g \in 1..Len(keys) |->
                     LET rows == group(table, "to_address", keys[g])
                     IN  [to_address |-> keys[g],
                          total_increase |-> Sum(Column(rows, "cost_increase")),
                          avg_increase |-> round_2(Mean(Column(rows, "cost_increase"))),
                          call_count |-> Len(rows),
                          unique_users |-> Cardinality(group_keys(rows, "from_address")),
                          total_current_cost |-> Sum(Column(rows, "gas_costs")),
                          total_new_cost |-> Sum(Column(rows, "eip7883_cost")),
                          avg_cost_ratio |-> [num |-> Sum(Column(rows, "eip7883_cost")),
                                              den |-> Sum(Column(rows, "gas_costs"))]]]
         IN  sort_values_descending(contract_impact, "total_increase")

identify_affected_protocols ==
    /\ stage = "costed"
    /\ protocols = {}
    /\ protocols' = {affected_protocols(df)}
    /\ UNCHANGED patterns
    /\ UNCHANGED aggVars
    /\ UNCHANGED <<calcVars, reportVars, mainVars, txVars>>

\* The clients of the tables the utilities are called on: none, one that
\* knows one transaction, one that knows them all.
UtilClients ==
    { [i \in 1..Len(known) |-> Transaction(known[i])] :
        known \in {<<>>, <<11>>, <<11, 12, 21>>} }

\* A costed table of up to MaxTxRows calls, as it is or as an enrichment
\* returned it whose one batch the primary query answered.
InitUtil ==
    /\ IdleCalc
    /\ IdleReport
    /\ IdleMain
    /\ data_dir = <<>>
    /\ limit = {}
    /\ batch_size = 1000
    /\ read_files = <<>>
    /\ failed_files = <<>>
    /\ stage = "costed"
    /\ error = NoError
    /\ mismatch = 0
    /\ warned = FALSE
    /\ threshold = 32
    /\ results = None
    /\ summary = None
    /\ enrich_args = [batch_size |-> 1000, max_blocks |-> {}]
    /\ xatu \in UtilClients
    /\ \E modexp_df \in UNION { [1..n -> TxRows] : n \in 1..MaxTxRows } :
          IF xatu = <<>>
          THEN /\ df = modexp_df
               /\ tx_batches = <<>>
               /\ tx_outcomes = <<>>
               /\ tx_results = <<>>
               /\ enriched = FALSE
          ELSE LET blocks == modexp_blocks(modexp_df, enrich_args.max_blocks)
               IN  /\ tx_batches = <<modexp_txs(modexp_df)>>
                   /\ tx_outcomes = <<"primary">>
                   /\ tx_results = tx_results_of(xatu, min_block(blocks), max_block(blocks),
                                                 tx_batches, tx_outcomes)
                   /\ df = enriched_df(modexp_df, tx_results)
                   /\ enriched = TRUE
    /\ patterns = None
    /\ protocols = {}

NextUtil == analyze_gas_usage_patterns \/ identify_affected_protocols \/ analyze_impact

SpecUtil == InitUtil /\ [][NextUtil]_vars

(***************************************************************************)
(* Claims about the calculators, checked under Spec.                       *)
(***************************************************************************)
LegacyReturned == pc \in {"legacy", "done"}

BothReturned == pc = "done"

X10001 == Hex(<<"1", "0", "0", "0", "1">>)

WorkedVectors ==
    { [b |-> 64, el |-> 3, m |-> 64, x |-> X10001, legacy |-> 341, proposed |-> 682],
      [b |-> 128, el |-> 3, m |-> 128, x |-> X10001, legacy |-> 200, proposed |-> 2730],
      [b |-> 256, el |-> 3, m |-> 256, x |-> X10001, legacy |-> 1365, proposed |-> 10922],
      [b |-> 512, el |-> 3, m |-> 512, x |-> X10001, legacy |-> 21845, proposed |-> 43690],
      [b |-> 1024, el |-> 3, m |-> 1024, x |-> X10001, legacy |-> 70997, proposed |-> 174762],
      [b |-> 32, el |-> 32, m |-> 32, x |-> X10001, legacy |-> 200, proposed |-> 500],
      [b |-> 32, el |-> 1, m |-> 32, x |-> Hex(<<"0", "3">>), legacy |-> 200, proposed |-> 500],
      [b |-> 0, el |-> 0, m |-> 0, x |-> Hex(<<"0">>), legacy |-> 200, proposed |-> 500] }

IsCall(v) == bsize = v.b /\ esize = v.el /\ msize = v.m /\ e = v.x

\* C1: on each of the eight worked vectors the legacy calculator returns the
\* stated legacy cost and the proposed calculator the stated proposed cost.
C1_WorkedVectors ==
    \A v \in WorkedVectors :
        IsCall(v) =>
            /\ pc # "raised"
            /\ LegacyReturned => calculated_2565 = v.legacy
            /\ BothReturned => calculated_7883 = v.proposed

\* The 1024-byte vector has been computed by both calculators.
C1_Witness ==
    /\ BothReturned
    /\ bsize = 1024 /\ esize = 3 /\ msize = 1024 /\ e = X10001
    /\ calculated_2565 = 70997
    /\ calculated_7883 = 174762

\* ceil(n / 8)
Ceil8(n) == IF n % 8 = 0 THEN n \div 8 ELSE (n \div 8) + 1

\* the quotient a / b truncated toward zero, for b > 0
TruncDiv(a, b) == IF a >= 0 THEN a \div b ELSE -((-a) \div b)

RefMaxLength == IF bsize >= msize THEN bsize ELSE msize

RefLegacyComplexity ==
    LET w == Ceil8(RefMaxLength)
    IN  CASE RefMaxLength <= 64 -> w * w
          [] RefMaxLength > 64 /\ RefMaxLength <= 1024 -> TruncDiv(w * w, 4) + 96 * w - 3072
          [] RefMaxLength > 1024 -> TruncDiv(w * w, 16) + 480 * w - 199680

RefProposedComplexity ==
    LET w == Ceil8(RefMaxLength)
    IN  IF RefMaxLength <= 32 THEN 16 ELSE 2 * w * w

\* C2: the legacy cost is max(200, trunc(complexity * iteration_count / 3)) with
\* the three-tier complexity over word_count = ceil(max_length / 8).
C2_LegacyFormula ==
    LegacyReturned =>
        calculated_2565 = Max(200, TruncDiv(RefLegacyComplexity * iterations_2565, 3))

\* A middle-tier call whose product is positive and not a multiple of 3.
C2_Witness ==
    /\ LegacyReturned
    /\ RefMaxLength = 1023
    /\ iterations_2565 = 16
    /\ calculated_2565 = 70997

\* The exponent value of the call and its low 256 bits.
RefExponent == exponent_int(e)

RefLow256 == RefExponent \cap (0..255)

\* multiplier * (exponent_length - 32) + bit_length(exponent mod 2^256) - 1,
\* floored at 1
RefLongIterations(multiplier) ==
    LET raw == multiplier * (esize - 32) + BitLength(RefLow256) - 1
    IN  IF raw < 1 THEN 1 ELSE raw

\* C3: the proposed cost is max(500, (complexity * iteration_count) // 3) with
\* complexity 16 up to 32 bytes and 2 * word_count^2 above, and the
\* long-exponent multiplier is 16.
C3_ProposedFormula ==
    BothReturned =>
        /\ calculated_7883 = Max(500, (RefProposedComplexity * iterations_7883) \div 3)
        /\ esize > 32 => iterations_7883 = RefLongIterations(16)

\* A 33-byte call (upper tier, 5 words) with a long exponent of 256 bits.
C3_Witness ==
    /\ BothReturned
    /\ RefMaxLength = 33
    /\ esize = 40 /\ e = Top255
    /\ iterations_7883 = 383
    /\ calculated_7883 = 6383

\* C4: the legacy cost is at least 200 and the proposed cost at least 500,
\* also when the complexity term is zero or negative.
C4_Floor ==
    /\ LegacyReturned => calculated_2565 >= 200
    /\ BothReturned => calculated_7883 >= 500

\* A call whose legacy complexity term is negative has returned the floor.
C4_Witness ==
    /\ BothReturned
    /\ RefLegacyComplexity < 0
    /\ calculated_2565 = 200
    /\ calculated_7883 > 500

\* The legacy tier of a maximum operand length.
LegacyTier(l) == IF l <= 64 THEN 1 ELSE IF l <= 1024 THEN 2 ELSE 3

\* C5 as stated: with the exponent fixed, a longer base or a longer modulus
\* never costs less, under either calculator.
C5_Monotone ==
    BothReturned =>
        \A l \in Lengths :
            /\ l >= bsize =>
                  /\ calculate_eip2565_cost(l, esize, msize, e) >= calculated_2565
                  /\ calculate_eip7883_cost(l, esize, msize, e) >= calculated_7883
            /\ l >= msize =>
                  /\ calculate_eip2565_cost(bsize, esize, l, e) >= calculated_2565
                  /\ calculate_eip7883_cost(bsize, esize, l, e) >= calculated_7883

\* C5 amended: with the exponent fixed, a longer base or a longer modulus never
\* costs less under the proposed calculator, and never costs less under the
\* legacy calculator as long as max(base_length, modulus_length) stays in the
\* same legacy tier (up to 64, 65 to 1024, above 1024).
C5_MonotoneWithinTier ==
    BothReturned =>
        \A l \in Lengths :
            /\ l >= bsize =>
                  /\ calculate_eip7883_cost(l, esize, msize, e) >= calculated_7883
                  /\ LegacyTier(Max(l, msize)) = LegacyTier(Max(bsize, msize)) =>
                        calculate_eip2565_cost(l, esize, msize, e) >= calculated_2565
            /\ l >= msize =>
                  /\ calculate_eip7883_cost(bsize, esize, l, e) >= calculated_7883
                  /\ LegacyTier(Max(bsize, l)) = LegacyTier(Max(bsize, msize)) =>
                        calculate_eip2565_cost(bsize, esize, l, e) >= calculated_2565

\* A 256-byte call whose cost rises under both calculators when the base
\* grows to 512 bytes, inside the middle legacy tier.
C5_Witness ==
    /\ BothReturned
    /\ bsize = 256 /\ msize = 256 /\ esize = 3 /\ e = X10001
    /\ calculate_eip2565_cost(512, esize, msize, e) > calculated_2565
    /\ calculate_eip7883_cost(512, esize, msize, e) > calculated_7883

\* C6: the proposed cost is never below the legacy cost of the same call.
C6_DeltaNonNegative ==
    BothReturned => calculated_7883 - calculated_2565 >= 0

\* A call above both floors whose two costs are equal: the delta is zero.
C6_Witness ==
    /\ BothReturned
    /\ calculated_2565 > 500
    /\ calculated_7883 - calculated_2565 = 0

\* 0 for a zero exponent, else the index of the highest one-bit of the whole
\* exponent; floored at 1
RefShortIterations ==
    LET raw == IF RefExponent = {} THEN 0 ELSE SetMax(RefExponent)
    IN  IF raw < 1 THEN 1 ELSE raw

\* the exponent value is 0, 1, 2 or 3
RefExponentBelow4 == RefExponent \subseteq {0, 1}

\* C7: for exponent_length <= 32 both calculators use the iteration count
\* max(1, bit_length(exponent) - 1) of the unmasked exponent (0 for a zero
\* exponent, floored to 1), so exponents 0, 1, 2 and 3 cost what one iteration costs.
C7_ShortExponent ==
    esize <= 32 =>
        /\ LegacyReturned =>
              /\ iterations_2565 = RefShortIterations
              /\ RefExponentBelow4 =>
                    /\ iterations_2565 = 1
                    /\ calculated_2565 = Max(200, RefLegacyComplexity \div 3)
        /\ BothReturned =>
              /\ iterations_7883 = RefShortIterations
              /\ RefExponentBelow4 =>
                    /\ iterations_7883 = 1
                    /\ calculated_7883 = Max(500, RefProposedComplexity \div 3)

\* A 512-byte call with the exponent "0x0" costs one iteration, not zero.
C7_Witness ==
    /\ BothReturned
    /\ esize <= 32
    /\ e = Hex(<<"0">>)
    /\ RefMaxLength = 512
    /\ calculated_2565 = 1365
    /\ calculated_7883 = 2730

\* The hex string of the low 256 bits (the last 64 digits) of a hex string.
Low64(s) ==
    LET d == HexDigits(s)
    IN  IF Len(d) <= 64 THEN s ELSE Hex(SubSeq(d, Len(d) - 63, Len(d)))

\* C8: for exponent_length > 32 the iteration count is
\* multiplier * (exponent_length - 32) + bit_length(exponent mod 2^256) - 1 with
\* multiplier 8 (legacy) and 16 (proposed), and the cost is the cost of the
\* exponent reduced modulo 2^256.
C8_LongExponent ==
    esize > 32 =>
        /\ LegacyReturned =>
              /\ iterations_2565 = RefLongIterations(8)
              /\ calculated_2565 = calculate_eip2565_cost(bsize, esize, msize, Low64(e))
        /\ BothReturned =>
              /\ iterations_7883 = RefLongIterations(16)
              /\ calculated_7883 = calculate_eip7883_cost(bsize, esize, msize, Low64(e))

\* A long-exponent call with the 257-bit exponent 2^256 + 0x10001.
C8_Witness ==
    /\ BothReturned
    /\ esize = 33
    /\ e = Wide10001
    /\ iterations_2565 = 24
    /\ iterations_7883 = 32

(***************************************************************************)
(* Claims about the per-record cost columns, checked under SpecAgg.        *)
(***************************************************************************)
\* C10: in every processed record, cost_increase is the computed proposed
\* cost minus the computed legacy cost, whatever its gas_costs is.
C10_DeltaFromComputedCosts ==
    stage = "costed" =>
        \A i \in 1..Len(df) :
            df[i].cost_increase = df[i].eip7883_cost - df[i].eip2565_cost

\* C11: in every processed record, cost_ratio is the computed proposed cost
\* over the computed legacy cost, and its denominator is at least the floor
\* of 200, whatever the record's gas_costs is.
C11_RatioFromComputedCosts ==
    stage = "costed" =>
        \A i \in 1..Len(df) :
            /\ df[i].cost_ratio.num = df[i].eip7883_cost
            /\ df[i].cost_ratio.den = df[i].eip2565_cost
            /\ df[i].cost_ratio.den >= 200

Costed == stage \in {"costed", "analyzed", "exported"}

Analyzed == stage \in {"analyzed", "exported"}

\* The rows of the data directory, in any order.
DirectoryRows == UNION { { data_dir[k].rows[i] : i \in 1..Len(data_dir[k].rows) } :
                         k \in DOMAIN data_dir }

RefDiffers(row) ==
    calculate_eip2565_cost(row.Bsize, row.Esize, row.Msize, row.E) # row.gas_costs

\* C12 as stated: the reported number of mismatches is the number of records
\* whose computed legacy cost differs from gas_costs, and whenever there is
\* one, the aggregation output carries the count and a sample of them.
C12_MismatchSurfaced ==
    /\ Costed => mismatch = Cardinality({ i \in 1..Len(df) : RefDiffers(df[i]) })
    /\ Analyzed /\ mismatch > 0 =>
           {"mismatch_count", "mismatch_sample"} \subseteq DOMAIN results

\* C12, amended: the number of mismatches is the number of records whose
\* computed legacy cost differs from gas_costs; it is surfaced only as a
\* printed warning, printed exactly when there is a mismatch, while the
\* aggregation output has no entry for it; and a run is only ever aborted by
\* an empty input or an unparseable exponent, never by a mismatch.
C12_MismatchWarned ==
    /\ Costed => /\ mismatch = Cardinality({ i \in 1..Len(df) : RefDiffers(df[i]) })
                 /\ warned = (mismatch > 0)
    /\ Analyzed => DOMAIN results \cap {"mismatch", "mismatch_count", "mismatch_sample"} = {}
    /\ stage = "raised" => \/ DirectoryRows = {}
                           \/ \E row \in DirectoryRows : ~Parses(row.E)

C12_Witness ==
    /\ stage = "analyzed"
    /\ Len(df) = 2
    /\ mismatch = 1
    /\ warned
    /\ df[1].gas_costs = 600
    /\ df[2].gas_costs = df[2].eip2565_cost

\* The loaded table with every gas_costs set to the computed legacy cost.
RecordedAsComputed ==
    LET loaded == concat(dfs(data_dir, limit, batch_size))
    IN  [i \in 1..Len(loaded) |->
            [loaded[i] EXCEPT !.gas_costs =
                calculate_eip2565_cost(loaded[i].Bsize, loaded[i].Esize,
                                       loaded[i].Msize, loaded[i].E)]]

\* C13: when exactly one record's gas_costs differs from its computed legacy
\* cost, exactly one mismatch is reported and the aggregate statistics are
\* those of the same records with that gas_costs set to the computed cost.
C13_StatisticsUnaffected ==
    Analyzed /\ Cardinality({ i \in 1..Len(df) : RefDiffers(df[i]) }) = 1 =>
        /\ mismatch = 1
        /\ results = impact_results(calculate_gas_costs(RecordedAsComputed))

\* C14: a data directory without any record ends the load with the error
\* "No valid ModExp data found", and no statistic is ever produced for it: no
\* table is set, nothing is analyzed or exported, and every result that is
\* produced counts at least one call, so no mean or percentage has a zero
\* denominator.
C14_EmptyInputFails ==
    /\ DirectoryRows = {} /\ stage # "constructed" =>
           /\ stage = "raised"
           /\ error.type = "ValueError"
           /\ error.message = "No valid ModExp data found"
           /\ df = <<>>
           /\ results = None
           /\ summary = None
    /\ Analyzed =>
           /\ results.total_calls >= 1
           /\ results.avg_cost_increase.den >= 1
           /\ results.pct_calls_affected.den >= 1
    /\ stage = "exported" =>
           /\ summary.TotalCalls >= 1
           /\ summary.PercentAffected.den >= 1

C14_Witness ==
    /\ stage = "raised"
    /\ error.message = "No valid ModExp data found"
    /\ Len(data_dir) = 2
    /\ ~data_dir[1].readable
    /\ data_dir[2].readable

Invalid(row) ==
    \/ row.Bsize < 0 \/ row.Esize < 0 \/ row.Msize < 0
    \/ (row.E # <<>> /\ ~Parses(row.E))

\* C15: no record with a negative length or an unparseable exponent is ever
\* costed, and a load that is rejected for invalid records reports every
\* invalid record of the table, not only the first.
C15_InvalidRejected ==
    /\ Costed => \A i \in 1..Len(df) : ~Invalid(df[i])
    /\ stage = "raised" /\ DirectoryRows # {} =>
           Len(error.literals) = Cardinality({ i \in 1..Len(df) : Invalid(df[i]) })

(***************************************************************************)
(* Claims about the population statistics, checked under SpecAgg.          *)
(***************************************************************************)
\* Number of records of a table whose column exceeds a bound, and the sum
\* of a column, record by record.
RECURSIVE RefCountOver(_, _, _)
RefCountOver(table, name, bound) ==
    IF table = <<>> THEN 0
    ELSE (IF Head(table)[name] > bound THEN 1 ELSE 0)
         + RefCountOver(Tail(table), name, bound)

RECURSIVE RefTotal(_, _)
RefTotal(table, name) ==
    IF table = <<>> THEN 0 ELSE Head(table)[name] + RefTotal(Tail(table), name)

\* C19: total_calls is the number of records, calls_with_increase the number
\* of records with cost_increase > 0 (between 0 and total_calls),
\* pct_calls_affected is 100 * calls_with_increase / total_calls, within 0
\* and 100, and total_cost_increase and max_cost_increase are the sum and the
\* maximum of cost_increase over all records; export_summary_stats reports
\* the same numbers.
C19_PopulationCounts ==
    /\ Analyzed =>
           /\ results.total_calls = Len(df)
           /\ results.calls_with_increase = RefCountOver(df, "cost_increase", 0)
           /\ 0 <= results.calls_with_increase
           /\ results.calls_with_increase <= results.total_calls
           /\ results.pct_calls_affected =
                  [num |-> 100 * results.calls_with_increase, den |-> results.total_calls]
           /\ 0 <= results.pct_calls_affected.num
           /\ results.pct_calls_affected.num <= 100 * results.pct_calls_affected.den
           /\ results.total_cost_increase = RefTotal(df, "cost_increase")
           /\ \A i \in 1..Len(df) : df[i].cost_increase <= results.max_cost_increase
           /\ \E i \in 1..Len(df) : df[i].cost_increase = results.max_cost_increase
    /\ stage = "exported" =>
           /\ summary.TotalCalls = results.total_calls
           /\ summary.CallsWithCostIncrease = results.calls_with_increase
           /\ summary.PercentAffected = results.pct_calls_affected
           /\ summary.TotalGasIncrease = results.total_cost_increase
           /\ summary.MaxCostIncrease = results.max_cost_increase

\* One call with an increase of 300 and one with -100: one of two affected.
C19_Witness ==
    /\ stage = "exported"
    /\ Len(df) = 2
    /\ df[1].cost_increase = 300
    /\ df[2].cost_increase = -100
    /\ results.total_calls = 2
    /\ results.calls_with_increase = 1
    /\ results.pct_calls_affected = [num |-> 100, den |-> 2]
    /\ results.total_cost_increase = 200
    /\ results.max_cost_increase = 300

\* C20 as stated: for each of base, exponent and modulus the reported count
\* is the number of records whose length is strictly greater than the
\* threshold the caller chose.
C20_ConfigurableThreshold ==
    Analyzed =>
        /\ results.calls_over_32_bytes.base = RefCountOver(df, "Bsize", threshold)
        /\ results.calls_over_32_bytes.exponent = RefCountOver(df, "Esize", threshold)
        /\ results.calls_over_32_bytes.modulus = RefCountOver(df, "Msize", threshold)

\* C20, amended: for each of base, exponent and modulus the reported count
\* is the number of records whose length is strictly greater than 32,
\* whatever threshold the caller wants; a length of exactly 32 is not
\* counted, and each count is a function of that operand's lengths alone.
\* export_summary_stats reports the same three counts.
C20_FixedThreshold ==
    /\ Analyzed =>
           /\ results.calls_over_32_bytes.base = RefCountOver(df, "Bsize", 32)
           /\ results.calls_over_32_bytes.exponent = RefCountOver(df, "Esize", 32)
           /\ results.calls_over_32_bytes.modulus = RefCountOver(df, "Msize", 32)
           /\ (\A i \in 1..Len(df) : df[i].Bsize = 32) =>
                  results.calls_over_32_bytes.base = 0
           /\ (\A i \in 1..Len(df) : df[i].Msize = 32) =>
                  results.calls_over_32_bytes.modulus = 0
    /\ stage = "exported" =>
           /\ summary.CallsWithBaseOver32 = results.calls_over_32_bytes.base
           /\ summary.CallsWithExpOver32 = results.calls_over_32_bytes.exponent
           /\ summary.CallsWithModOver32 = results.calls_over_32_bytes.modulus

\* The caller wants 64, one base is 64 and one is 32: the count is still 1.
C20_Witness ==
    /\ stage = "exported"
    /\ threshold = 64
    /\ Len(df) = 2
    /\ df[1].Bsize = 64 /\ df[1].Esize = 3 /\ df[1].Msize = 32
    /\ df[2].Bsize = 32 /\ df[2].Esize = 33 /\ df[2].Msize = 40
    /\ results.calls_over_32_bytes = [base |-> 1, exponent |-> 1, modulus |-> 1]

(***************************************************************************)
(* Claims about the report's percentiles, checked under SpecReport.        *)
(***************************************************************************)
Reported == percentiles # None

HasIncreases == Reported /\ "no_increases" \notin DOMAIN percentiles

DeltaPercentiles == {<<"p10", 10>>, <<"p25", 25>>, <<"p50", 50>>, <<"p75", 75>>,
                     <<"p90", 90>>, <<"p95", 95>>, <<"p99", 99>>}

RatioPercentiles == {<<"p50", 50>>, <<"p75", 75>>, <<"p90", 90>>, <<"p95", 95>>,
                     <<"p99", 99>>}

\* The records with a cost_increase above 0, in table order.
RECURSIVE RefIncreased(_)
RefIncreased(table) ==
    IF table = <<>> THEN <<>>
    ELSE IF Head(table).cost_increase > 0
         THEN <<Head(table)>> \o RefIncreased(Tail(table))
         ELSE RefIncreased(Tail(table))

\* C16: the percentiles are those of the records with cost_increase > 0
\* alone: they are the percentiles of the table with every other record
\* removed, adding a record whose cost_increase is zero or negative changes
\* none of them, and the ratio percentiles are taken over the cost_ratio of
\* exactly the records whose cost_increase feeds the delta percentiles.
C16_OnlyIncreases ==
    Reported =>
        /\ percentiles = calculate_percentiles(RefIncreased(main_data))
        /\ \A row \in ReportRows :
               row.cost_increase <= 0 =>
                   /\ calculate_percentiles(Append(main_data, row)) = percentiles
                   /\ calculate_percentiles(<<row>> \o main_data) = percentiles
        /\ (RefIncreased(main_data) = <<>>) = ("no_increases" \in DOMAIN percentiles)
        /\ HasIncreases =>
               /\ \A q \in DeltaPercentiles :
                      percentiles[q[1]] =
                          Percentile(Column(RefIncreased(main_data), "cost_increase"), q[2])
               /\ \A q \in RatioPercentiles :
                      percentiles.ratio_percentiles[q[1]] =
                          RatioPercentile(Column(RefIncreased(main_data), "cost_ratio"), q[2])

C16_Witness ==
    /\ HasIncreases
    /\ Len(main_data) = 3
    /\ main_data[1].cost_increase = 0
    /\ main_data[2].cost_increase = 300
    /\ main_data[3].cost_increase = -100
    /\ percentiles.p50.num = 100 * 300
    /\ percentiles.ratio_percentiles.p50.num * 2 = 5 * percentiles.ratio_percentiles.p50.den

\* Ascending insertion sort of integers, and of num/den pairs.
RECURSIVE RefInsert(_, _)
RefInsert(x, sorted) ==
    IF sorted = <<>> THEN <<x>>
    ELSE IF x <= Head(sorted) THEN <<x>> \o sorted
         ELSE <<Head(sorted)>> \o RefInsert(x, Tail(sorted))

RECURSIVE RefSort(_)
RefSort(values) ==
    IF values = <<>> THEN <<>> ELSE RefInsert(Head(values), RefSort(Tail(values)))

RECURSIVE RefRatioInsert(_, _)
RefRatioInsert(x, sorted) ==
    IF sorted = <<>> THEN <<x>>
    ELSE IF x.num * Head(sorted).den <= Head(sorted).num * x.den THEN <<x>> \o sorted
         ELSE <<Head(sorted)>> \o RefRatioInsert(x, Tail(sorted))

RECURSIVE RefRatioSort(_)
RefRatioSort(values) ==
    IF values = <<>> THEN <<>>
    ELSE RefRatioInsert(Head(values), RefRatioSort(Tail(values)))

RefDeltas == RefSort(Column(RefIncreased(main_data), "cost_increase"))

RefRatios == RefRatioSort(Column(RefIncreased(main_data), "cost_ratio"))

\* x = y for two num/den pairs.
SameRatio(x, y) == x.num * y.den = y.num * x.den

entity_profiles ==
    << [type |-> "Regular User", count |-> 50, b_size |-> 32, e_size |-> 32, m_size |-> 32, daily_calls |-> 5],
       [type |-> "Regular User", count |-> 30, b_size |-> 32, e_size |-> 32, m_size |-> 32, daily_calls |-> 15],
       [type |-> "Medium Complexity", count |-> 15, b_size |-> 64, e_size |-> 32, m_size |-> 64, daily_calls |-> 10],
       [type |-> "Medium Complexity", count |-> 10, b_size |-> 128, e_size |-> 32, m_size |-> 128, daily_calls |-> 20],
       [type |-> "High Complexity", count |-> 5, b_size |-> 256, e_size |-> 32, m_size |-> 256, daily_calls |-> 25],
       [type |-> "High Complexity", count |-> 3, b_size |-> 512, e_size |-> 32, m_size |-> 512, daily_calls |-> 10],
       [type |-> "DeFi Protocol", count |-> 12, b_size |-> 32, e_size |-> 32, m_size |-> 32, daily_calls |-> 200],
       [type |-> "DeFi Protocol", count |-> 8, b_size |-> 64, e_size |-> 32, m_size |-> 64, daily_calls |-> 150],
       [type |-> "Enterprise", count |-> 6, b_size |-> 256, e_size |-> 32, m_size |-> 256, daily_calls |-> 500],
       [type |-> "Enterprise", count |-> 4, b_size |-> 512, e_size |-> 32, m_size |-> 512, daily_calls |-> 200] >>

IsProfileCall(profile) ==
    /\ bsize = profile.b_size
    /\ esize = profile.e_size
    /\ msize = profile.m_size
    /\ e = X10001

\* C25: for every Regular User profile the proposed cost is between 1.5 and
\* 2 times the legacy cost.
C25_RegularUserRatio ==
    \A i \in 1..Len(entity_profiles) :
        entity_profiles[i].type = "Regular User" /\ IsProfileCall(entity_profiles[i])
        /\ BothReturned =>
            /\ 3 * calculated_2565 <= 2 * calculated_7883
            /\ calculated_7883 <= 2 * calculated_2565

\* C26: the legacy middle-tier complexity is negative for word counts 9..29;
\* whenever the complexity is zero or negative the legacy cost is exactly
\* 200, so it is 200 for every maximum length 65..232 whatever the exponent;
\* and the legacy cost is never below 200.
C26_NegativeComplexityFloors ==
    LegacyReturned =>
        /\ Ceil8(RefMaxLength) \in 9..29 => RefLegacyComplexity < 0
        /\ RefLegacyComplexity <= 0 => calculated_2565 = 200
        /\ RefMaxLength \in 65..232 => calculated_2565 = 200
        /\ calculated_2565 >= 200

\* 232 bytes are 29 words; a 40-byte exponent above 2^256 still costs 200.
C26_Witness ==
    /\ LegacyReturned
    /\ RefMaxLength = 232
    /\ esize = 40
    /\ e = Wide10001
    /\ RefLegacyComplexity = -78
    /\ iterations_2565 > 16
    /\ calculated_2565 = 200

(***************************************************************************)
(* The loader's selection, batching and failure handling.                  *)
(***************************************************************************)
Loaded == stage # "constructed"

\* The block numbers of the k files with the highest block numbers.
RefHighest(k) ==
    { b \in DOMAIN data_dir : Cardinality({ c \in DOMAIN data_dir : c > b }) < k }

Blocks(files) == { files[i] : i \in 1..Len(files) }

Descending(files) == \A i, j \in 1..Len(files) : i < j => files[i] > files[j]

\* The columns a file stores.
Stored(row) ==
    [name \in {"Bsize", "Esize", "Msize", "E", "gas_costs", "tx_hash"} |-> row[name]]

\* The rows of df that carry block number b, in df's order, as stored.
RecordsOf(b) ==
    LET rows == SelectSeq(df, LAMBDA row : row.block_number = b)
    IN  [i \in 1..Len(rows) |-> Stored(rows[i])]

\* What the file b.parquet yields: its rows, none when it cannot be read.
RefYield(b) == IF data_dir[b].readable THEN data_dir[b].rows ELSE <<>>

NoValidData ==
    /\ stage = "raised"
    /\ error = [type |-> "ValueError", message |-> "No valid ModExp data found",
                literals |-> <<>>]

\* C28 as stated: a limit below the number of files selects exactly that
\* many files, those with the highest block numbers.
C28_LimitSelectsExactly ==
    Loaded =>
        \A k \in limit :
            k < Cardinality(DOMAIN data_dir) => Blocks(read_files) = RefHighest(k)

\* C28 (amended): for every batch size, each selected file is read once, in
\* descending block order, and the loaded records are the same whatever the
\* batch size; a positive limit below the number of files selects exactly the
\* limit files with the highest block numbers, no limit selects them all; and
\* every record carries the block number of the file it came from.
C28_LoaderBatching ==
    Loaded =>
        /\ Descending(read_files)
        /\ \A k \in limit :
              (k > 0 /\ k < Cardinality(DOMAIN data_dir))
                  => Blocks(read_files) = RefHighest(k)
        /\ limit = {} => Blocks(read_files) = DOMAIN data_dir
        /\ \A size \in BatchSizes :
              concat(dfs(data_dir, limit, size)) = concat(dfs(data_dir, limit, batch_size))
        /\ \A b \in Blocks(read_files) : RecordsOf(b) = RefYield(b)
        /\ \A i \in 1..Len(df) :
              /\ df[i].block_number \in Blocks(read_files)
              /\ df[i].tx_hash \div 10 = df[i].block_number
        /\ \A i, j \in 1..Len(df) : i < j => df[i].block_number >= df[j].block_number

\* Three files, a limit of two and batches of one: the two highest files are
\* read in two batches and their three records loaded.
C28_Witness ==
    /\ stage = "costed"
    /\ limit = {2}
    /\ batch_size = 1
    /\ read_files = <<3, 2>>
    /\ Len(df) = 3
    /\ df[1].block_number = 3
    /\ df[3].block_number = 2

\* C29: a file that cannot be read is recorded as failed and skipped, an
\* empty file is skipped, and the records of the other files are loaded as
\* stored; the load raises ValueError('No valid ModExp data found') exactly
\* when no selected file yields a record, and then sets no table and computes
\* no cost.
C29_FailureIsolation ==
    Loaded =>
        /\ Blocks(failed_files) = { b \in Blocks(read_files) : ~data_dir[b].readable }
        /\ Descending(failed_files)
        /\ \A b \in Blocks(read_files) : RecordsOf(b) = RefYield(b)
        /\ Len(df) = Sum([i \in 1..Len(read_files) |-> Len(RefYield(read_files[i]))])
        /\ NoValidData <=> (\A b \in Blocks(read_files) : RefYield(b) = <<>>)
        /\ NoValidData => df = <<>> /\ mismatch = 0 /\ ~warned
        /\ ~NoValidData => stage = "costed" /\ \A i \in 1..Len(df) : df[i].eip7883_cost = 500

\* The highest file cannot be read, the next is empty, the lowest holds two
\* calls: one failure is recorded and the two calls are loaded and costed.
C29_Witness ==
    /\ stage = "costed"
    /\ DOMAIN data_dir = 1..3
    /\ ~data_dir[3].readable
    /\ data_dir[2].readable /\ data_dir[2].rows = <<>>
    /\ failed_files = <<3>>
    /\ read_files = <<3, 2, 1>>
    /\ Len(df) = 2

\* A directory whose files all fail or are empty: the load raises.
C29_WitnessRaised ==
    /\ NoValidData
    /\ DOMAIN data_dir = 1..2
    /\ failed_files = <<2>>
    /\ df = <<>>

(***************************************************************************)
(* run_analysis.main after a failed enrichment.                            *)
(***************************************************************************)
\* C27 as stated: after an enrichment failure the run is never ended by an
\* exception at a later stage, and a finished run has written the data
\* exports and analysis_summary.txt.
C27_EnrichmentFailureTolerated ==
    enrich_failed =>
        /\ main_pc # "aborted"
        /\ main_pc = "done" =>
              {"modexp_analysis_data.parquet", "analysis_summary.txt"} \subseteq outputs

\* Every run that asked for enrichment and got as far as the summary ends
\* with the NameError, its summary file unfinished.
C27_EnrichedRunsAbort ==
    (args.enrich_txs /\ main_pc \in {"done", "aborted"} /\ stage = "analyzed")
        => /\ main_pc = "aborted"
           /\ error.type = "NameError"
           /\ "analysis_summary.txt" \notin outputs
           /\ "modexp_analysis_data.parquet" \in outputs

(***************************************************************************)
(* The batches of enrich_with_transaction_data.                            *)
(***************************************************************************)
Elements(sequence) == { sequence[i] : i \in 1..Len(sequence) }

\* The block range the queries ask for: the blocks of the table, or the
\* max_blocks highest of them when there are more.
RefQueriedBlocks ==
    LET blocks == Elements(Column(df, "block_number"))
    IN  IF \E k \in enrich_args.max_blocks : k > 0 /\ k < Cardinality(blocks)
        THEN { b \in blocks : \E k \in enrich_args.max_blocks :
                                 Cardinality({ c \in blocks : c > b }) < k }
        ELSE blocks

RefBatchCap == IF enrich_args.batch_size <= 500 THEN enrich_args.batch_size ELSE 500

C30_Batches ==
    enriched =>
        LET hashes == [b \in 1..Len(tx_batches) |-> Elements(tx_batches[b])]
            queried == UNION { hashes[b] : b \in 1..Len(tx_batches) }
            answered == UNION { hashes[b] : b \in { c \in 1..Len(tx_batches) :
                                                     tx_outcomes[c] # "failed" } }
            blocks == RefQueriedBlocks
            lo == CHOOSE b \in blocks : \A c \in blocks : b <= c
            hi == CHOOSE b \in blocks : \A c \in blocks : b >= c
            \* The transactions the client holds for the batches whose queries
            \* did not both fail.
            returned == { t \in Elements(xatu) :
                            /\ t.block_number >= lo /\ t.block_number <= hi
                            /\ t.tx_hash \in answered }
            kept == concat(tx_results)
        IN  /\ queried = Elements(Column(df, "tx_hash"))
            /\ Sum([b \in 1..Len(tx_batches) |-> Len(tx_batches[b])]) = Cardinality(queried)
            /\ \A b \in 1..Len(tx_batches) :
                  /\ Len(tx_batches[b]) >= 1
                  /\ Len(tx_batches[b]) <= RefBatchCap
                  /\ b < Len(tx_batches) => Len(tx_batches[b]) = RefBatchCap
            /\ Len(tx_outcomes) = Len(tx_batches)
            /\ Elements(kept) = returned
            /\ Len(kept) = Cardinality(returned)
            /\ \A f \in 1..Len(tx_results) :
                  /\ tx_results[f] # <<>>
                  /\ \E b \in 1..Len(tx_batches) :
                        /\ tx_outcomes[b] # "failed"
                        /\ Elements(Column(tx_results[f], "tx_hash")) \subseteq hashes[b]
            /\ tx_results = <<>> => ~has_column(df, "from_address")
            /\ tx_results # <<>> => has_column(df, "from_address")

\* C30: the unique hashes are split into consecutive batches of
\* min(batch_size, 500), each hash in exactly one batch; a batch whose primary
\* query fails is answered by the fallback query, a batch whose queries both
\* fail contributes nothing and the other batches are still processed; only
\* rows whose hash belongs to the batch are kept; and when no batch returns a
\* row the input table is returned unchanged.
C30_EnrichmentBatching ==
    /\ []C30_Batches
    /\ [][(~enriched /\ enriched' /\ tx_results' = <<>>) => df' = df]_vars

\* 501 hashes make a batch of 500 and one of 1; both queries of the first
\* batch fail and the fallback answers the second with its one transaction.
C30_Witness ==
    /\ enriched
    /\ Len(tx_batches) = 2
    /\ Len(tx_batches[1]) = 500
    /\ Len(tx_batches[2]) = 1
    /\ tx_outcomes = <<"failed", "fallback">>
    /\ Len(tx_results) = 1
    /\ Len(tx_results[1]) = 1
    /\ Len(df) = MaxBigRows
    /\ Cardinality({ i \in 1..Len(df) : df[i].from_address # {} }) = 1

(***************************************************************************)
(* The grouped view of analyze_impact over an enriched table.              *)
(***************************************************************************)
Grouped == stage = "analyzed" /\ "top_impacted_addresses" \in DOMAIN results

\* The rows of df whose from_address is the key.
RefKeyed(key) == { i \in 1..Len(df) : key \in df[i].from_address }

RECURSIVE RefSumOver(_)
RefSumOver(rows) ==
    IF rows = {} THEN 0
    ELSE LET i == CHOOSE j \in rows : TRUE
         IN  df[i].cost_increase + RefSumOver(rows \ {i})

\* The sum of the cost increases of the rows lo..hi.
RECURSIVE RefSumTo(_, _)
RefSumTo(lo, hi) ==
    IF lo > hi THEN 0
    ELSE IF lo = hi THEN df[lo].cost_increase
    ELSE RefSumTo(lo, (lo + hi) \div 2) + RefSumTo((lo + hi) \div 2 + 1, hi)

\* The keys present, with the sum and the count of each key's records.
RefGroups ==
    { <<key, RefSumOver(RefKeyed(key)), Cardinality(RefKeyed(key))>> :
        key \in UNION { df[i].from_address : i \in 1..Len(df) } }

\* One row per key, no key twice, at most 20 rows, sums and counts of the
\* key's records, sums descending, and no omitted key with a greater sum.
GroupedViewShape(view) ==
    LET groups == RefGroups
        shown == { <<view[g].from_address, view[g].total_increase, view[g].call_count>> :
                     g \in 1..Len(view) }
        least == IF view = <<>> THEN 0 ELSE view[Len(view)].total_increase
    IN  /\ Len(view) = (IF Cardinality(groups) < 20 THEN Cardinality(groups) ELSE 20)
        /\ Cardinality(shown) = Len(view)
        /\ shown \subseteq groups
        /\ \A g \in 1..(Len(view) - 1) : view[g].total_increase >= view[g + 1].total_increase
        /\ \A omitted \in groups \ shown : omitted[2] <= least

\* C21 as stated: each row of the grouped view holds the mean of its key's
\* cost increases.
C21_GroupedMeanExact ==
    Grouped =>
        /\ GroupedViewShape(results.top_impacted_addresses)
        /\ \A g \in 1..Len(results.top_impacted_addresses) :
              LET row == results.top_impacted_addresses[g]
              IN  row.avg_increase.num * row.call_count
                      = row.avg_increase.den * row.total_increase

\* C21 (amended): with a from_address column the grouped view holds one row
\* per distinct key with the sum and count of the key's cost increases and
\* their mean rounded to two decimals, ordered by sum descending and cut to
\* at most 20 rows, no omitted key having a greater sum than an included one.
C21_GroupedAggregation ==
    Grouped =>
        /\ GroupedViewShape(results.top_impacted_addresses)
        /\ \A g \in 1..Len(results.top_impacted_addresses) :
              LET row == results.top_impacted_addresses[g]
                  off == 100 * row.total_increase - row.avg_increase.num * row.call_count
              IN  /\ row.avg_increase.den = 100
                  /\ 2 * off <= row.call_count
                  /\ 2 * off >= 0 - row.call_count

\* 25 senders: the view keeps 20 and leaves out the five lowest sums.
C21_Witness ==
    /\ Grouped
    /\ Cardinality(RefGroups) = 25
    /\ Len(results.top_impacted_addresses) = 20

\* One sender with the increases 300, -100, -100: the mean 33.33.
C21_WitnessRounded ==
    /\ Grouped
    /\ \E g \in 1..Len(results.top_impacted_addresses) :
          /\ results.top_impacted_addresses[g].total_increase = 100
          /\ results.top_impacted_addresses[g].call_count = 3
          /\ results.top_impacted_addresses[g].avg_increase = [num |-> 3333, den |-> 100]

\* The table without the columns of the transaction data.
RefWithoutKeys ==
    [i \in 1..Len(df) |->
        [name \in DOMAIN df[i] \ {"from_address", "to_address", "gas_price",
                                  "eth_cost_current", "eth_cost_eip7883",
                                  "eth_cost_increase"} |-> df[i][name]]]

\* C22: in a table mixing records with and without a from_address, a record
\* without one is in no group of the grouped view, and every whole-population
\* statistic counts it: the statistics are those of the table without the key.
C22_MissingKey ==
    Grouped =>
        /\ \A g \in 1..Len(results.top_impacted_addresses) :
              LET row == results.top_impacted_addresses[g]
                  keyed == RefKeyed(row.from_address)
              IN  /\ keyed # {}
                  /\ row.call_count = Cardinality(keyed)
                  /\ row.total_increase = RefSumOver(keyed)
        /\ results.total_calls = Len(df)
        /\ results.total_cost_increase = RefSumTo(1, Len(df))
        /\ results.avg_cost_increase = [num |-> RefSumTo(1, Len(df)), den |-> Len(df)]
        /\ results.calls_with_increase
              = Cardinality({ i \in 1..Len(df) : df[i].cost_increase > 0 })
        /\ \A i \in 1..Len(df) : results.max_cost_increase >= df[i].cost_increase
        /\ results.calls_over_32_bytes.base = Cardinality({ i \in 1..Len(df) : df[i].Bsize > 32 })
        /\ [name \in DOMAIN results \ {"top_impacted_addresses"} |-> results[name]]
              = impact_results(RefWithoutKeys)

\* Three calls, the first two of one known sender and the third of an unknown
\* transaction: one group of two calls, three calls in the totals.
C22_Witness ==
    /\ Grouped
    /\ Len(df) = 3
    /\ df[1].from_address # {} /\ df[1].from_address = df[2].from_address
    /\ df[3].from_address = {}
    /\ Len(results.top_impacted_addresses) = 1
    /\ results.top_impacted_addresses[1].call_count = 2
    /\ results.total_calls = 3

(***************************************************************************)
(* The analysis operations and the table they are given.                   *)
(***************************************************************************)
\* C24 as stated: a utility that returns its result leaves the caller's
\* table as it was: no row and no column more or less, no value changed.
C24_TableUnchanged ==
    [][(patterns' # patterns \/ protocols' # protocols \/ results' # results)
          => df' = df]_vars

\* What analyze_gas_usage_patterns does to the table: the rows keep their
\* columns and values and gain exponent_int and is_fermat.
C24_ColumnsAdded ==
    patterns # None =>
        \A i \in 1..Len(df) :
            {"exponent_int", "is_fermat"} \subseteq DOMAIN df[i]

(***************************************************************************)
(* Order independence of the costs and of the reduced statistics.          *)
(***************************************************************************)
RowOrders(n) ==
    { order \in [1..n -> 1..n] : \A i, j \in 1..n : i # j => order[i] # order[j] }

Permuted(table, order) == [i \in 1..Len(table) |-> table[order[i]]]

\* A row as it was before _calculate_gas_costs.
Uncosted(row) ==
    [name \in DOMAIN row \ {"eip2565_cost", "eip7883_cost", "cost_increase", "cost_ratio"}
        |-> row[name]]

\* The statistics of the claim, reduced from one table; the groups as the
\* set of (key, sum, count).
Reduced(table) ==
    [count |-> Len(table),
     total |-> Sum(Column(table, "cost_increase")),
     highest |-> OrderStat(Column(table, "cost_increase"), Len(table)),
     increased |-> CountOver(table, "cost_increase", 0),
     base |-> CountOver(table, "Bsize", 32),
     exponent |-> CountOver(table, "Esize", 32),
     modulus |-> CountOver(table, "Msize", 32),
     groups |-> IF has_column(table, "from_address")
                THEN { <<row.from_address, row.total_increase, row.call_count>> :
                         row \in Elements(address_impact(table)) }
                ELSE {}]

\* Two reductions merged: counts and sums added, the greater maximum, the
\* groups joined key by key.
Merged(a, b) ==
    [count |-> a.count + b.count,
     total |-> a.total + b.total,
     highest |-> IF a.highest >= b.highest THEN a.highest ELSE b.highest,
     increased |-> a.increased + b.increased,
     base |-> a.base + b.base,
     exponent |-> a.exponent + b.exponent,
     modulus |-> a.modulus + b.modulus,
     groups |-> { g \in a.groups : \A h \in b.groups : h[1] # g[1] }
                \cup { h \in b.groups : \A g \in a.groups : h[1] # g[1] }
                \cup { <<g[1], g[2] + h[2], g[3] + h[3]>> :
                         <<g, h>> \in { pair \in a.groups \X b.groups :
                                          pair[1][1] = pair[2][1] } }]

\* What analyze_impact reported, in the same shape.
ReportedReduction ==
    [count |-> results.total_calls,
     total |-> results.total_cost_increase,
     highest |-> results.max_cost_increase,
     increased |-> results.calls_with_increase,
     base |-> results.calls_over_32_bytes.base,
     exponent |-> results.calls_over_32_bytes.exponent,
     modulus |-> results.calls_over_32_bytes.modulus,
     groups |-> IF "top_impacted_addresses" \in DOMAIN results
                THEN { <<row.from_address, row.total_increase, row.call_count>> :
                         row \in Elements(results.top_impacted_addresses) }
                ELSE {}]

\* C23: the costs of a record do not depend on its place, and the count, the
\* sum and maximum of the cost increase, the affected count, the
\* over-threshold counts and the per-group sums and counts are the same for
\* every permutation of the table and for every split of a permutation into
\* two parts reduced separately and merged.
C23_OrderIndependence ==
    stage = "analyzed" =>
        \A order \in RowOrders(Len(df)) :
            LET table == Permuted(df, order)
                costed == <<>> \o calculate_gas_costs([i \in 1..Len(table) |->
                                                          Uncosted(table[i])])
            IN  /\ \A i \in 1..Len(df) :
                      /\ costed[i].eip2565_cost = df[order[i]].eip2565_cost
                      /\ costed[i].eip7883_cost = df[order[i]].eip7883_cost
                      /\ costed[i].cost_increase = df[order[i]].cost_increase
                /\ Reduced(costed) = ReportedReduction
                /\ \A cut \in 1..(Len(df) - 1) :
                      Merged(Reduced(SubSeq(costed, 1, cut)),
                             Reduced(SubSeq(costed, cut + 1, Len(df)))) = ReportedReduction

\* Three calls with the increases 300, -100, -100 of two senders, analysed.
C23_Witness ==
    /\ stage = "analyzed"
    /\ Len(df) = 3
    /\ df[1].cost_increase = 300 /\ df[2].cost_increase = -100 /\ df[3].cost_increase = -100
    /\ "top_impacted_addresses" \in DOMAIN results
    /\ Len(results.top_impacted_addresses) = 2
    /\ results.max_cost_increase = 300
    /\ results.total_cost_increase = 100

====
